---- MODULE Spec2Model ----
(***************************************************************************)
(* Model of the generate -> verify -> refine loop and of the job-state /   *)
(* manifest stores of the SQM project images generator.                    *)
(*                                                                         *)
(* One behaviour is the life of one job (one output directory): the        *)
(* project generation driver (generate_project.main) runs to its end and   *)
(* afterwards single-shot regenerations (regenerate_single.main) are       *)
(* invoked on the job.  The two external capabilities (image synthesis,    *)
(* consistency judge) are nondeterministic inputs of the steps that call   *)
(* them.                                                                   *)
(***************************************************************************)
EXTENDS Integers, Sequences, FiniteSets, TLC

(***************************************************************************)
(* Program constants                                                       *)
(***************************************************************************)
VERIFICATION_THRESHOLD == 80
MAX_REGEN_ATTEMPTS == 3

(***************************************************************************)
(* Bounds of the model                                                     *)
(***************************************************************************)
\* number of plan entries (hero included) the driver's for loop walks
MaxShots == 3
\* number of single-shot regeneration runs in one behaviour
MaxRegens == 2
\* number of store function calls made on drawn arguments in one behaviour
MaxToolCalls == 3
\* largest num_units drawn for get_shots_for_project_type
MaxUnits == 4
\* largest number of criteria in a drawn judge breakdown
MaxCriteria == 2
\* largest number of issues in a drawn judge result
MaxIssues == 2

\* judge scores the model draws from (the judge's contract is 0..100): one
\* below the threshold, the threshold itself, one above it, and 0, which is
\* also what a judging failure yields
Scores == {0, 75, 80, 90}

\* outcome of an attempt whose synthesis returned no image, in attempt_log
NoImage == -1

(***************************************************************************)
(* Shot plan data (prompts/shot_types.py)                                  *)
(***************************************************************************)
SHOT_TYPES ==
  << "hero_facade", "hero_twilight", "hero_elevated",
     "context_street", "context_aerial", "context_approach",
     "feature_entry", "feature_material", "feature_signature",
     "interior_living", "interior_kitchen", "interior_master",
     "interior_bathroom", "spatial_staircase", "spatial_window",
     "spatial_volume", "lifestyle_morning", "lifestyle_evening" >>

MULTI_UNIT_EXTRA_SHOTS == << "multi_unit_variety", "multi_shared_spaces" >>

\* variation types of the hero-image driver (generate_images.py)
VARIATIONS ==
  << "aerial_view", "street_level", "corner_view", "golden_hour",
     "night_scene", "detail_closeup", "with_landscaping", "with_context" >>

ProjectTypes == {"dual_occupancy", "townhouses", "apartments"}

\* num_units values the parser may return (None is replaced by 2)
UnitCounts == {2, 3}

\* the "order" key of each shot definition
shot_order ==
  [id \in {"hero_facade"} |-> 1] @@ [id \in {"hero_twilight"} |-> 2]
    @@ [id \in {"hero_elevated"} |-> 3] @@ [id \in {"context_street"} |-> 4]
    @@ [id \in {"context_aerial"} |-> 5] @@ [id \in {"context_approach"} |-> 6]
    @@ [id \in {"feature_entry"} |-> 7] @@ [id \in {"feature_material"} |-> 8]
    @@ [id \in {"feature_signature"} |-> 9]
    @@ [id \in {"interior_living"} |-> 10]
    @@ [id \in {"interior_kitchen"} |-> 11]
    @@ [id \in {"interior_master"} |-> 12]
    @@ [id \in {"interior_bathroom"} |-> 13]
    @@ [id \in {"spatial_staircase"} |-> 14]
    @@ [id \in {"spatial_window"} |-> 15] @@ [id \in {"spatial_volume"} |-> 16]
    @@ [id \in {"lifestyle_morning"} |-> 17]
    @@ [id \in {"lifestyle_evening"} |-> 18]
    @@ [id \in {"multi_unit_variety"} |-> 19]
    @@ [id \in {"multi_shared_spaces"} |-> 20]

\* the shot definitions that carry "is_hero": True
shot_is_hero(id) == id \in {"hero_facade", "hero_twilight", "hero_elevated"}

\* sorted(shots, key=lambda x: x["order"]): stable, each element is placed
\* after the elements before it whose key is not larger
RECURSIVE sorted(_)
sorted(shots) ==
  IF shots = << >> THEN << >>
  ELSE LET n == Len(shots)
           x == shots[n]
           front == sorted(SubSeq(shots, 1, n - 1))
           k == Cardinality({j \in 1..Len(front) :
                               shot_order[front[j]] <= shot_order[x]})
       IN SubSeq(front, 1, k) \o << x >> \o SubSeq(front, k + 1, Len(front))

get_all_shots_ordered == sorted(SHOT_TYPES)

\* mutant: the supplementary shots are put before the base shots
get_shots_for_project_type_ExtrasFirst(project_type, num_units) ==
  IF project_type = "apartments" \/ (project_type = "townhouses" /\ num_units >= 3)
    THEN sorted(MULTI_UNIT_EXTRA_SHOTS) \o get_all_shots_ordered
    ELSE get_all_shots_ordered

get_shots_for_project_type(project_type, num_units) ==
  IF project_type = "apartments" \/ (project_type = "townhouses" /\ num_units >= 3)
    THEN get_all_shots_ordered \o sorted(MULTI_UNIT_EXTRA_SHOTS)
    ELSE get_all_shots_ordered

\* get_shot_by_id(shot_id) is not None
get_shot_by_id(shot_id) == \E k \in 1..Len(SHOT_TYPES) : SHOT_TYPES[k] = shot_id

Min(a, b) == IF a <= b THEN a ELSE b

(***************************************************************************)
(* Interior shot ids, as each module lists them                            *)
(***************************************************************************)
\* generate_project.py
INTERIOR_SHOT_IDS ==
  { "interior_living", "interior_kitchen", "interior_master",
    "interior_bathroom", "spatial_staircase", "spatial_window",
    "spatial_volume", "lifestyle_morning", "lifestyle_evening" }

\* regenerate_single.py
regenerate_single_INTERIOR_SHOT_IDS ==
  { "interior_living", "interior_kitchen", "interior_master",
    "interior_bathroom", "spatial_staircase", "spatial_window",
    "spatial_volume", "lifestyle_morning", "lifestyle_evening" }

\* tools/verify_consistency.py
verify_consistency_INTERIOR_SHOT_IDS ==
  { "interior_living", "interior_kitchen", "interior_master",
    "interior_bathroom", "spatial_staircase", "spatial_window",
    "spatial_volume", "lifestyle_morning", "lifestyle_evening" }

\* mutant: only the ids that start with "interior_" are classified interior
is_interior_shot_ByPrefix(id) ==
  id \in { "interior_living", "interior_kitchen", "interior_master",
           "interior_bathroom" }

\* generate_project.is_interior_shot
is_interior_shot(id) == id \in INTERIOR_SHOT_IDS

\* regenerate_single.is_interior_shot
regenerate_single_is_interior_shot(id) ==
  id \in regenerate_single_INTERIOR_SHOT_IDS

(***************************************************************************)
(* State                                                                   *)
(***************************************************************************)
VARIABLES
  status,          \* status.json: a dict, DOMAIN = the keys present
  manifest,        \* manifest.json: [exists, images]
  from_hero,       \* --from-hero names an existing file
  pc,              \* position of the entry point that is running
  shots_list,      \* the plan of the run
  for_stop,        \* index after which the for loop is not followed further
  i,               \* index of the for loop over shots_list
  completed,       \* driver's completed counter
  attempts,        \* locals of the driver's per-shot loop
  best_score,
  best_image_data, \* TRUE iff best_image_data is not None
  verification,    \* result of the latest judge call of the loop
  best_breakdown,  \* the judge result whose breakdown is retained
  best_image_of,   \* history: the attempt whose image best_image_data holds
  fixing_prompt,   \* << >> is None, else the critiques the text is built from
  variation_prompt, \* instruction handed to the latest synthesis call
  attempt_log,     \* history: outcome of each attempt of the current loop
  skipped,         \* history: shot ids reported as SKIPPED
  shot_calls,      \* history: a synthesis call other than the hero synthesis was made
  hero_failed,     \* history: hero synthesis returned no image
  r_pc,            \* position of regenerate_single.main
  variation_type,  \* argument of the regeneration run
  r_attempts,      \* locals of the regeneration loop
  r_best_score,
  r_best_image_data,
  r_verification,
  r_best_breakdown,
  r_best_image_of,
  r_fixing_prompt,
  r_variation_prompt,
  r_log,           \* history: outcome of each attempt of the regeneration loop
  r_exit,          \* exit of the latest regeneration run: "none", "ok", "error"
  regens,          \* number of regeneration runs started
  status_data,     \* argument of the latest call of a status update function
  tool_calls,      \* number of store function calls made on drawn arguments
  call_args,       \* a function of the program and the arguments drawn for it
  call_result,     \* what that function returned, once it was called
  save_manifest,   \* locals of save_image_to_manifest: the documents it loaded
  save_status,
  upd_manifest,    \* locals of update_manifest: the documents it loaded
  upd_status,
  synth_calls,     \* history: synthesis calls made by the running driver
  judge_calls      \* history: judge calls made by the running driver

storeVars == << status, manifest >>
loopVars == << verification, fixing_prompt, variation_prompt,
              best_breakdown, best_image_of >>
drvVars == << from_hero, pc, shots_list, for_stop, i, completed, attempts,
              best_score, best_image_data, loopVars, attempt_log, skipped,
              shot_calls, hero_failed >>
rLoopVars == << r_verification, r_fixing_prompt, r_variation_prompt,
               r_best_breakdown, r_best_image_of >>
regenVars == << r_pc, variation_type, r_attempts, r_best_score,
                r_best_image_data, rLoopVars, r_log, r_exit, regens >>
fnVars == << call_args, call_result >>
ioVars == << save_manifest, save_status, upd_manifest, upd_status >>
toolVars == << status_data, tool_calls, fnVars, ioVars >>
countVars == << synth_calls, judge_calls >>
vars == << storeVars, drvVars, regenVars, toolVars, countVars >>

(***************************************************************************)
(* The two stores                                                          *)
(***************************************************************************)
EmptyDict == [k \in {} |-> 0]

\* datetime.now().isoformat(): the clock reading, one value for all readings
Now == "now"

\* dict.update: new keys overwrite, absent keys are preserved
dict_update(existing, data) ==
  [k \in (DOMAIN existing) \cup (DOMAIN data) |->
     IF k \in DOMAIN data THEN data[k] ELSE existing[k]]

\* mutant: the document is replaced by the partial record
update_status_Replace(existing, data) ==
  dict_update(data, [updated_at |-> Now])

\* status.json after update_status: merge, then the timestamp
update_status(existing, data) ==
  dict_update(dict_update(existing, data), [updated_at |-> Now])

\* status.json after tools/storage.update_job_status: merge, timestamp, and
\* the images of the manifest when there is one
update_job_status(existing, m, data) ==
  LET merged == dict_update(dict_update(existing, data), [updated_at |-> Now])
  IN IF m.exists THEN dict_update(merged, [images |-> m.images]) ELSE merged

\* mutant: the mirror also writes the status field
MirrorImages_MarksGenerating(st, images) ==
  IF DOMAIN st = {} THEN st
  ELSE dict_update(st, [images |-> images, status |-> "generating"])

\* the status document after the manifest's images are mirrored into it
\* (only when status.json exists)
MirrorImages(st, images) ==
  IF DOMAIN st = {} THEN st ELSE dict_update(st, [images |-> images])

\* mutant: the new entry is put in front of the list
save_image_to_manifest_Prepend(m, image_data) ==
  [exists |-> TRUE,
   images |-> << image_data >> \o (IF m.exists THEN m.images ELSE << >>)]

\* mutant: the list is rewritten with the new entry alone
save_image_to_manifest_Overwrite(m, image_data) ==
  [exists |-> TRUE, images |-> << image_data >>]

\* manifest after save_image_to_manifest
save_image_to_manifest(m, image_data) ==
  [exists |-> TRUE,
   images |-> (IF m.exists THEN m.images ELSE << >>) \o << image_data >>]

\* manifest after tools/storage.store_image: the entry gets the next id; an
\* entry written by this tool has no isHero key (reading it yields false)
store_image(m, vt, consistency_score, n_attempts, low_confidence) ==
  LET images == IF m.exists THEN m.images ELSE << >> IN
    [exists |-> TRUE,
     images |-> Append(images,
        [id |-> Len(images) + 1, variationType |-> vt, isHero |-> FALSE,
         consistencyScore |-> consistency_score, attempts |-> n_attempts,
         lowConfidence |-> low_confidence])]

\* index of the first entry whose variationType matches, 0 if none
FindEntry(images, vt) ==
  IF \E k \in 1..Len(images) : images[k].variationType = vt
    THEN CHOOSE k \in 1..Len(images) :
           /\ images[k].variationType = vt
           /\ \A j \in 1..(k - 1) : images[j].variationType # vt
    ELSE 0

\* mutant: the replaced entry's id is not carried over
update_manifest_NewId(images, vt, new_image_data) ==
  IF \E k \in 1..Len(images) : images[k].variationType = vt
    THEN [images EXCEPT
            ![CHOOSE k \in 1..Len(images) :
                /\ images[k].variationType = vt
                /\ \A j \in 1..(k - 1) : images[j].variationType # vt]
              = new_image_data]
    ELSE images

\* mutant: new data that matches no entry is appended
update_manifest_Append(images, vt, new_image_data) ==
  IF \E k \in 1..Len(images) : images[k].variationType = vt
    THEN [images EXCEPT
            ![CHOOSE k \in 1..Len(images) :
                /\ images[k].variationType = vt
                /\ \A j \in 1..(k - 1) : images[j].variationType # vt]
              = [new_image_data EXCEPT
                   !.id = images[CHOOSE k \in 1..Len(images) :
                            /\ images[k].variationType = vt
                            /\ \A j \in 1..(k - 1) :
                                 images[j].variationType # vt].id]]
    ELSE Append(images, [new_image_data EXCEPT !.id = Len(images) + 1])

\* manifest images after update_manifest: the first matching entry is
\* replaced by the new data, which takes over that entry's id
update_manifest(images, vt, new_image_data) ==
  LET k == FindEntry(images, vt) IN
    IF k = 0 THEN images
    ELSE [images EXCEPT ![k] = [new_image_data EXCEPT !.id = images[k].id]]

HeroEntry ==
  [id |-> 1, variationType |-> "hero_facade", isHero |-> TRUE,
   consistencyScore |-> 100, attempts |-> 1, lowConfidence |-> FALSE]

(***************************************************************************)
(* Judge results and instructions                                          *)
(***************************************************************************)
\* no judge call made yet in this loop
NoVerification ==
  [attempt |-> 0, rubric |-> "none", total_score |-> 0, breakdown |-> "none"]

\* no synthesis call made yet in this loop
NoPrompt == [shot |-> "none", fixes |-> << >>]

\* the JSON object of a judge reply with total score s, on the given attempt
Verification(attempt, rubric, s) ==
  [attempt |-> attempt, rubric |-> rubric, total_score |-> s,
   breakdown |-> "scored"]

\* reply of the judge model when the call raises or its text is not JSON
JudgeFailed == -2

\* replies of the judge model: a total score, or a failure
JudgeReplies == Scores \cup {JudgeFailed}

\* mutant: a failed judge call counts as a full score
verify_image_FailOpen(attempt, rubric, reply) ==
  IF reply = JudgeFailed
    THEN [attempt |-> attempt, rubric |-> rubric, total_score |-> 100,
          breakdown |-> "empty"]
    ELSE Verification(attempt, rubric, reply)

\* verify_image / verify_interior_image: the parsed reply, or on any
\* exception a result with total_score 0 and an empty breakdown
verify_image(attempt, rubric, reply) ==
  IF reply = JudgeFailed
    THEN [attempt |-> attempt, rubric |-> rubric, total_score |-> 0,
          breakdown |-> "empty"]
    ELSE Verification(attempt, rubric, reply)

\* the fixing text is built from one judge result; it always holds the
\* <fixes_required> frame, so it is never an empty (false) string
build_fixing_prompt(verification_result) == << verification_result >>

\* mutant: the new critique is added to the text kept so far
FixingPromptAfter_Concat(current, verification_result) ==
  current \o << verification_result >>

\* fixing_prompt after a failed judged attempt
FixingPromptAfter(current, verification_result) ==
  build_fixing_prompt(verification_result)

\* build_variation_prompt(shot, ...) plus the fixing text when there is one
VariationPrompt(id, fixes) == [shot |-> id, fixes |-> fixes]

(***************************************************************************)
(* Initial state: nothing written yet for the job                          *)
(***************************************************************************)
IdleLocals ==
  /\ attempts = 0
  /\ best_score = 0
  /\ best_image_data = FALSE
  /\ verification = NoVerification
  /\ best_breakdown = NoVerification
  /\ best_image_of = 0
  /\ fixing_prompt = << >>
  /\ variation_prompt = NoPrompt
  /\ attempt_log = << >>

IdleRegen ==
  /\ r_pc = "idle"
  /\ variation_type = "none"
  /\ r_attempts = 0
  /\ r_best_score = 0
  /\ r_best_image_data = FALSE
  /\ r_verification = NoVerification
  /\ r_best_breakdown = NoVerification
  /\ r_best_image_of = 0
  /\ r_fixing_prompt = << >>
  /\ r_variation_prompt = NoPrompt
  /\ r_log = << >>

\* no function called on drawn arguments, no document loaded
\* synth_calls and judge_calls count the image synthesis calls and the
\* judge calls of a generation run in the specification that follows one
\* run to its end; elsewhere they stay NotCounted
NotCounted == -1
Counted(calls) == IF calls = NotCounted THEN NotCounted ELSE calls + 1

NoCall == [fn |-> "none"]
NoResult == [returned |-> FALSE]

IdleTools ==
  /\ status_data = EmptyDict
  /\ tool_calls = 0
  /\ call_args = NoCall
  /\ call_result = NoResult
  /\ save_manifest = << >>
  /\ save_status = EmptyDict
  /\ upd_manifest = << >>
  /\ upd_status = EmptyDict

\* a job for which nothing was written yet
NewJob ==
  /\ status = EmptyDict
  /\ manifest = [exists |-> FALSE, images |-> << >>]
  /\ from_hero = FALSE
  /\ pc = "start"
  /\ shots_list = << >>
  /\ for_stop = MaxShots
  /\ i = 0
  /\ completed = 0
  /\ IdleLocals
  /\ skipped = {}
  /\ shot_calls = FALSE
  /\ hero_failed = FALSE
  /\ IdleRegen
  /\ r_exit = "none"
  /\ regens = 0
  /\ IdleTools

Init ==
  /\ NewJob
  /\ synth_calls = NotCounted
  /\ judge_calls = NotCounted

(***************************************************************************)
(* generate_project.main                                                   *)
(***************************************************************************)
total_shots == Len(shots_list)

\* the shot of the current for-loop iteration
shot_id == shots_list[i]

\* last index the for loop visits
LastIndex == Min(Len(shots_list), for_stop)

\* main returns: its parameters and locals are gone
Return ==
  /\ pc' = "done"
  /\ from_hero' = FALSE
  /\ shots_list' = << >>
  /\ i' = 0
  /\ completed' = 0
  /\ attempts' = 0
  /\ best_score' = 0
  /\ best_image_data' = FALSE
  /\ verification' = NoVerification
  /\ best_breakdown' = NoVerification
  /\ best_image_of' = 0
  /\ fixing_prompt' = << >>
  /\ variation_prompt' = NoPrompt
  /\ attempt_log' = << >>

\* the job holds a hero that waits for approval (inspiration flow)
AwaitingApproval ==
  "status" \in DOMAIN status /\ status.status = "awaiting_approval"

\* entry with its from_hero argument (TRUE: --from-hero names an existing
\* file), initial status update; the run that follows an
\* inspiration hero is the run on the approved hero
Start(approved_hero) ==
  /\ pc = "start"
  /\ r_pc = "idle"
  /\ AwaitingApproval => approved_hero
  /\ from_hero' = approved_hero
  /\ status' = update_status(status,
        [status |-> "parsing", progress |-> 2, currentImage |-> 0,
         totalImages |-> 18])
  /\ pc' = "parse"
  /\ UNCHANGED << manifest, shots_list, for_stop, i, completed, attempts,
                  best_score, best_image_data, loopVars, attempt_log, skipped,
                  shot_calls, hero_failed, regenVars, toolVars, countVars >>

\* prompt parsing, plan construction, manifest creation
Parse(project_type, num_units) ==
  /\ pc = "parse"
  /\ shots_list' = get_shots_for_project_type(project_type, num_units)
  /\ status' = update_status(status, [totalImages |-> Len(shots_list')])
  /\ manifest' = [exists |-> TRUE, images |-> << >>]
  /\ pc' = "hero"
  /\ UNCHANGED << from_hero, for_stop, i, completed, attempts, best_score,
                  best_image_data, loopVars, attempt_log, skipped, shot_calls,
                  hero_failed, regenVars, toolVars, countVars >>

\* mutant: the hero entry is added only when the manifest holds a hero
UseApprovedHero_IfPresent ==
  /\ pc = "hero"
  /\ from_hero
  /\ LET st == update_status(status,
                 [status |-> "generating", progress |-> 10, currentImage |-> 1,
                  totalImages |-> total_shots, currentVariation |-> "hero_facade"])
         add == manifest.exists /\
                  \E k \in 1..Len(manifest.images) : manifest.images[k].isHero
     IN IF add
          THEN /\ manifest' = save_image_to_manifest(manifest, HeroEntry)
               /\ status' = MirrorImages(st, manifest'.images)
          ELSE /\ manifest' = manifest
               /\ status' = st
  /\ completed' = 1
  /\ i' = 0
  /\ pc' = "for"
  /\ UNCHANGED << from_hero, shots_list, for_stop, attempts, best_score,
                  best_image_data, loopVars, attempt_log, skipped, shot_calls,
                  hero_failed, regenVars, toolVars, countVars >>

\* pre-approved hero: no synthesis, the hero entry is added unless the
\* manifest already holds a hero
UseApprovedHero ==
  /\ pc = "hero"
  /\ from_hero
  /\ LET st == update_status(status,
                 [status |-> "generating", progress |-> 10, currentImage |-> 1,
                  totalImages |-> total_shots, currentVariation |-> "hero_facade"])
         add == ~ (manifest.exists /\
                   \E k \in 1..Len(manifest.images) : manifest.images[k].isHero)
     IN IF add
          THEN /\ manifest' = save_image_to_manifest(manifest, HeroEntry)
               /\ status' = MirrorImages(st, manifest'.images)
          ELSE /\ manifest' = manifest
               /\ status' = st
  /\ completed' = 1
  /\ i' = 0
  /\ pc' = "for"
  /\ UNCHANGED << from_hero, shots_list, for_stop, attempts, best_score,
                  best_image_data, loopVars, attempt_log, skipped, shot_calls,
                  hero_failed, regenVars, toolVars, countVars >>

\* status update that precedes hero synthesis
HeroStatus ==
  /\ pc = "hero"
  /\ ~ from_hero
  /\ status' = update_status(status,
        [status |-> "generating_hero", progress |-> 5, currentImage |-> 1,
         totalImages |-> 18, currentVariation |-> "hero_facade"])
  /\ pc' = "hero_gen"
  /\ UNCHANGED << manifest, from_hero, shots_list, for_stop, i, completed,
                  attempts, best_score, best_image_data, loopVars, attempt_log,
                  skipped, shot_calls, hero_failed, regenVars, toolVars, countVars >>

\* mutant: the error branch does not return
HeroGenerate_NoReturn(image_ok) ==
  /\ pc = "hero_gen"
  /\ synth_calls' = Counted(synth_calls)
  /\ hero_failed' = ~ image_ok
  /\ IF ~ image_ok
       THEN /\ status' = update_status(status, [status |-> "error"])
            /\ UNCHANGED manifest
       ELSE /\ manifest' = save_image_to_manifest(manifest, HeroEntry)
            /\ status' = MirrorImages(status, manifest'.images)
  /\ completed' = 1
  /\ i' = 0
  /\ pc' = "for"
  /\ UNCHANGED << from_hero, shots_list, for_stop, attempts, best_score,
                  best_image_data, loopVars, attempt_log, skipped, shot_calls,
                  regenVars, toolVars, judge_calls >>

\* hero synthesis: image_ok is whether generate_image returned image bytes
HeroGenerate(image_ok) ==
  /\ pc = "hero_gen"
  /\ synth_calls' = Counted(synth_calls)
  /\ hero_failed' = ~ image_ok
  /\ IF ~ image_ok
       THEN /\ status' = update_status(status, [status |-> "error"])
            /\ Return
            /\ UNCHANGED manifest
       ELSE /\ manifest' = save_image_to_manifest(manifest, HeroEntry)
            /\ status' = MirrorImages(status, manifest'.images)
            /\ completed' = 1
            /\ i' = 0
            /\ pc' = "for"
            /\ UNCHANGED << from_hero, shots_list, attempts, best_score,
                            best_image_data, loopVars, attempt_log >>
  /\ UNCHANGED << for_stop, skipped, shot_calls, regenVars, toolVars, judge_calls >>

\* for loop: the hero_facade entry of the plan is skipped
ForSkipHero ==
  /\ pc = "for"
  /\ i < LastIndex
  /\ shots_list[i + 1] = "hero_facade"
  /\ i' = i + 1
  /\ UNCHANGED << storeVars, from_hero, pc, shots_list, for_stop, completed,
                  attempts, best_score, best_image_data, loopVars, attempt_log,
                  skipped, shot_calls, hero_failed, regenVars, toolVars, countVars >>

\* mutant: the status of a shot is reported as the hero stage
ShotStart_HeroStage ==
  /\ pc = "for"
  /\ i < LastIndex
  /\ shots_list[i + 1] # "hero_facade"
  /\ i' = i + 1
  /\ status' = update_status(status,
        [status |-> "generating_hero",
         progress |-> (completed * 100) \div Len(shots_list),
         currentImage |-> completed + 1,
         totalImages |-> Len(shots_list),
         currentVariation |-> shots_list[i + 1]])
  /\ attempts' = 0
  /\ best_score' = 0
  /\ best_image_data' = FALSE
  /\ verification' = NoVerification
  /\ best_breakdown' = NoVerification
  /\ best_image_of' = 0
  /\ fixing_prompt' = << >>
  /\ variation_prompt' = NoPrompt
  /\ attempt_log' = << >>
  /\ pc' = "while"
  /\ UNCHANGED << manifest, from_hero, shots_list, for_stop, completed,
                  skipped, shot_calls, hero_failed, regenVars, toolVars, countVars >>

\* for loop: next shot, status update, loop locals initialised
ShotStart ==
  /\ pc = "for"
  /\ i < LastIndex
  /\ shots_list[i + 1] # "hero_facade"
  /\ i' = i + 1
  /\ status' = update_status(status,
        [status |-> "generating",
         progress |-> (completed * 100) \div total_shots,
         currentImage |-> completed + 1,
         totalImages |-> total_shots,
         currentVariation |-> shots_list[i + 1]])
  /\ attempts' = 0
  /\ best_score' = 0
  /\ best_image_data' = FALSE
  /\ verification' = NoVerification
  /\ best_breakdown' = NoVerification
  /\ best_image_of' = 0
  /\ fixing_prompt' = << >>
  /\ variation_prompt' = NoPrompt
  /\ attempt_log' = << >>
  /\ pc' = "while"
  /\ UNCHANGED << manifest, from_hero, shots_list, for_stop, completed,
                  skipped, shot_calls, hero_failed, regenVars, toolVars, countVars >>

\* mutant: an attempt without image goes on to the judge
Synthesize_JudgeVoid(image_ok) ==
  /\ pc = "while"
  /\ synth_calls' = Counted(synth_calls)
  /\ attempts < MAX_REGEN_ATTEMPTS
  /\ attempts' = attempts + 1
  /\ shot_calls' = TRUE
  /\ variation_prompt' = VariationPrompt(shot_id, fixing_prompt)
  /\ IF ~ image_ok
       THEN /\ attempt_log' = Append(attempt_log, NoImage)
            /\ pc' = "verify"
            /\ UNCHANGED status
       ELSE /\ attempt_log' = attempt_log
            /\ status' = update_status(status, [status |-> "verifying"])
            /\ pc' = "verify"
  /\ UNCHANGED << manifest, from_hero, shots_list, for_stop, i, completed,
                  best_score, best_image_data, verification, best_breakdown, best_image_of, fixing_prompt,
                  skipped, hero_failed, regenVars, toolVars, judge_calls >>

\* mutant: the while loop admits one attempt more
Synthesize_OneMore(image_ok) ==
  /\ pc = "while"
  /\ synth_calls' = Counted(synth_calls)
  /\ attempts <= MAX_REGEN_ATTEMPTS
  /\ attempts' = attempts + 1
  /\ shot_calls' = TRUE
  /\ variation_prompt' = VariationPrompt(shot_id, fixing_prompt)
  /\ IF ~ image_ok
       THEN /\ attempt_log' = Append(attempt_log, NoImage)
            /\ pc' = "while"
            /\ UNCHANGED status
       ELSE /\ attempt_log' = attempt_log
            /\ status' = update_status(status, [status |-> "verifying"])
            /\ pc' = "verify"
  /\ UNCHANGED << manifest, from_hero, shots_list, for_stop, i, completed,
                  best_score, best_image_data, verification, best_breakdown, best_image_of, fixing_prompt,
                  skipped, hero_failed, regenVars, toolVars, judge_calls >>

\* mutant: an attempt without an image does not use up a slot
Synthesize_VoidIsFree(image_ok) ==
  /\ pc = "while"
  /\ synth_calls' = Counted(synth_calls)
  /\ attempts < MAX_REGEN_ATTEMPTS
  /\ attempts' = IF image_ok THEN attempts + 1 ELSE attempts
  /\ shot_calls' = TRUE
  /\ variation_prompt' = VariationPrompt(shots_list[i], fixing_prompt)
  /\ IF ~ image_ok
       THEN /\ attempt_log' = Append(attempt_log, NoImage)
            /\ pc' = "while"
            /\ UNCHANGED status
       ELSE /\ attempt_log' = attempt_log
            /\ status' = update_status(status, [status |-> "verifying"])
            /\ pc' = "verify"
  /\ UNCHANGED << manifest, from_hero, shots_list, for_stop, i, completed,
                  best_score, best_image_data, verification, best_breakdown, best_image_of, fixing_prompt,
                  skipped, hero_failed, regenVars, toolVars, judge_calls >>

\* one pass of the while loop up to the synthesis result
Synthesize(image_ok) ==
  /\ pc = "while"
  /\ synth_calls' = Counted(synth_calls)
  /\ attempts < MAX_REGEN_ATTEMPTS
  /\ attempts' = attempts + 1
  /\ shot_calls' = TRUE
  /\ variation_prompt' = VariationPrompt(shot_id, fixing_prompt)
  /\ IF ~ image_ok
       THEN /\ attempt_log' = Append(attempt_log, NoImage)
            /\ pc' = "while"
            /\ UNCHANGED status
       ELSE /\ attempt_log' = attempt_log
            /\ status' = update_status(status, [status |-> "verifying"])
            /\ pc' = "verify"
  /\ UNCHANGED << manifest, from_hero, shots_list, for_stop, i, completed,
                  best_score, best_image_data, verification, best_breakdown, best_image_of, fixing_prompt,
                  skipped, hero_failed, regenVars, toolVars, judge_calls >>

\* mutant: the latest score is kept, whether or not it is better
BestScoreAfter_Latest(best, s) == s

BestScoreAfter(best, s) == IF s > best THEN s ELSE best

BestImageAfter(best, have, s) == IF s > best THEN TRUE ELSE have

\* mutant: a later judge result with an equal score replaces the breakdown
BestBreakdownAfter_AtLeast(best, retained, v) ==
  IF v.total_score >= best /\ v.total_score > 0 THEN v ELSE retained

\* best_breakdown after a judged attempt
BestBreakdownAfter(best, retained, v) ==
  IF v.total_score > best THEN v ELSE retained

\* the attempt whose image is retained after a judged attempt
BestImageOfAfter(best, retained, attempt, s) ==
  IF s > best THEN attempt ELSE retained

\* mutant: a score equal to the threshold passes
Passes_AtLeast(s) == s >= VERIFICATION_THRESHOLD

\* mutant: the loop never exits early
Passes_Never(s) == FALSE

Passes(s) == s > VERIFICATION_THRESHOLD

\* the rubric of the judge the driver calls for a shot
JudgeRubric(id) == IF is_interior_shot(id) THEN "interior" ELSE "exterior"

\* judge call on the image of this attempt, best-candidate update, exit
\* test, fixing text for the next attempt
Verify(reply) ==
  /\ pc = "verify"
  /\ judge_calls' = Counted(judge_calls)
  /\ verification' = verify_image(attempts, JudgeRubric(shot_id), reply)
  /\ LET score == verification'.total_score IN
       /\ attempt_log' = Append(attempt_log, score)
       /\ best_score' = BestScoreAfter(best_score, score)
       /\ best_image_data' = BestImageAfter(best_score, best_image_data, score)
       /\ best_breakdown' =
            BestBreakdownAfter(best_score, best_breakdown, verification')
       /\ best_image_of' =
            BestImageOfAfter(best_score, best_image_of, attempts, score)
  /\ IF Passes(verification'.total_score)
       THEN /\ pc' = "save_best"
            /\ UNCHANGED fixing_prompt
       ELSE /\ pc' = "while"
            /\ fixing_prompt' = FixingPromptAfter(fixing_prompt, verification')
  /\ UNCHANGED << storeVars, from_hero, shots_list, for_stop, i, completed,
                  attempts, variation_prompt, skipped, shot_calls,
                  hero_failed, regenVars, toolVars, synth_calls >>

\* the while condition is false
WhileExit ==
  /\ pc = "while"
  /\ ~ (attempts < MAX_REGEN_ATTEMPTS)
  /\ pc' = "save_best"
  /\ UNCHANGED << storeVars, from_hero, shots_list, for_stop, i, completed,
                  attempts, best_score, best_image_data, loopVars,
                  attempt_log, skipped, shot_calls, hero_failed, regenVars,
                  toolVars, countVars >>

\* mutant: a best score equal to the threshold is not flagged
LowConfidence_Strict(best) == best < VERIFICATION_THRESHOLD

LowConfidence(best) == best <= VERIFICATION_THRESHOLD

\* mutant: attempts counts the judged attempts only
ImageEntry_JudgedOnly ==
  [id |-> completed + 1, variationType |-> shots_list[i], isHero |-> FALSE,
   consistencyScore |-> best_score,
   attempts |-> Cardinality({k \in 1..Len(attempt_log) : attempt_log[k] # NoImage}),
   lowConfidence |-> (best_score <= VERIFICATION_THRESHOLD)]

\* mutant: the identity is the position of the shot in the plan
ImageEntry_PlanPosition ==
  [id |-> i, variationType |-> shot_id, isHero |-> FALSE,
   consistencyScore |-> best_score, attempts |-> attempts,
   lowConfidence |-> LowConfidence(best_score)]

ImageEntry ==
  [id |-> completed + 1, variationType |-> shot_id, isHero |-> FALSE,
   consistencyScore |-> best_score, attempts |-> attempts,
   lowConfidence |-> LowConfidence(best_score)]

\* mutant: whatever the loop left is stored once an attempt was made
SaveBest_Always ==
  /\ pc = "save_best"
  /\ IF attempts > 0
       THEN /\ manifest' = save_image_to_manifest(manifest,
                 [id |-> completed + 1, variationType |-> shots_list[i],
                  isHero |-> FALSE, consistencyScore |-> best_score,
                  attempts |-> attempts,
                  lowConfidence |-> (best_score <= VERIFICATION_THRESHOLD)])
            /\ status' = MirrorImages(status, manifest'.images)
            /\ completed' = completed + 1
            /\ UNCHANGED skipped
       ELSE /\ skipped' = skipped \cup {shots_list[i]}
            /\ UNCHANGED << storeVars, completed >>
  /\ pc' = "for"
  /\ UNCHANGED << from_hero, shots_list, for_stop, i, attempts, best_score,
                  best_image_data, loopVars, attempt_log, shot_calls,
                  hero_failed, regenVars, toolVars, countVars >>

\* "save the best image we got": append to the manifest or report SKIPPED
SaveBest ==
  /\ pc = "save_best"
  /\ IF best_image_data
       THEN /\ manifest' = save_image_to_manifest(manifest, ImageEntry)
            /\ status' = MirrorImages(status, manifest'.images)
            /\ completed' = completed + 1
            /\ UNCHANGED skipped
       ELSE /\ skipped' = skipped \cup {shot_id}
            /\ UNCHANGED << storeVars, completed >>
  /\ pc' = "for"
  /\ UNCHANGED << from_hero, shots_list, for_stop, i, attempts, best_score,
                  best_image_data, loopVars, attempt_log, shot_calls,
                  hero_failed, regenVars, toolVars, countVars >>

\* final status
Final ==
  /\ pc = "for"
  /\ ~ (i < LastIndex)
  /\ status' = update_status(status,
        [status |-> "complete", progress |-> 100,
         currentImage |-> total_shots, totalImages |-> total_shots])
  /\ Return
  /\ UNCHANGED << manifest, for_stop, skipped, shot_calls, hero_failed,
                  regenVars, toolVars, countVars >>

(***************************************************************************)
(* generate_images.main: variations of an uploaded hero image.  The text   *)
(* of its instructions is not followed: verification, fixing_prompt and    *)
(* variation_prompt belong to the two loops above and below.               *)
(***************************************************************************)
\* entry, on a job for which nothing was written yet: a missing hero image
\* file is an error, else the for loop starts
VStart(hero_exists) ==
  /\ pc = "start"
  /\ r_pc = "idle"
  /\ DOMAIN status = {}
  /\ IF ~ hero_exists
       THEN /\ status' = update_status(status, [status |-> "error"])
            /\ Return
       ELSE /\ status' = status
            /\ shots_list' = VARIATIONS
            /\ completed' = 0
            /\ i' = 0
            /\ pc' = "v_for"
            /\ UNCHANGED << from_hero, attempts, best_score, best_image_data,
                            loopVars, attempt_log >>
  /\ UNCHANGED << manifest, for_stop, skipped, shot_calls, hero_failed,
                  regenVars, toolVars, countVars >>

\* for loop: next variation, status update, loop locals initialised
VShotStart ==
  /\ pc = "v_for"
  /\ i < LastIndex
  /\ i' = i + 1
  /\ status' = update_status(status,
        [status |-> "generating",
         progress |-> (i * 100) \div total_shots,
         currentImage |-> i + 1,
         totalImages |-> total_shots,
         currentVariation |-> shots_list[i + 1]])
  /\ attempts' = 0
  /\ best_score' = 0
  /\ best_image_data' = FALSE
  /\ attempt_log' = << >>
  /\ pc' = "v_while"
  /\ UNCHANGED << manifest, from_hero, shots_list, for_stop, completed,
                  loopVars, skipped, shot_calls, hero_failed, regenVars,
                  toolVars, countVars >>

VSynthesize(image_ok) ==
  /\ pc = "v_while"
  /\ synth_calls' = Counted(synth_calls)
  /\ attempts < MAX_REGEN_ATTEMPTS
  /\ attempts' = attempts + 1
  /\ shot_calls' = TRUE
  /\ IF ~ image_ok
       THEN /\ attempt_log' = Append(attempt_log, NoImage)
            /\ pc' = "v_while"
            /\ UNCHANGED status
       ELSE /\ attempt_log' = attempt_log
            /\ status' = update_status(status, [status |-> "verifying"])
            /\ pc' = "v_verify"
  /\ UNCHANGED << manifest, from_hero, shots_list, for_stop, i, completed,
                  best_score, best_image_data, loopVars, skipped,
                  hero_failed, regenVars, toolVars, judge_calls >>

VVerify(s) ==
  /\ pc = "v_verify"
  /\ judge_calls' = Counted(judge_calls)
  /\ attempt_log' = Append(attempt_log, s)
  /\ best_score' = (IF s > best_score THEN s ELSE best_score)
  /\ best_image_data' = (IF s > best_score THEN TRUE ELSE best_image_data)
  /\ pc' = IF s > VERIFICATION_THRESHOLD THEN "v_save_best" ELSE "v_while"
  /\ UNCHANGED << storeVars, from_hero, shots_list, for_stop, i, completed,
                  attempts, loopVars, skipped, shot_calls, hero_failed,
                  regenVars, toolVars, synth_calls >>

VWhileExit ==
  /\ pc = "v_while"
  /\ ~ (attempts < MAX_REGEN_ATTEMPTS)
  /\ pc' = "v_save_best"
  /\ UNCHANGED << storeVars, from_hero, shots_list, for_stop, i, completed,
                  attempts, best_score, best_image_data, loopVars,
                  attempt_log, skipped, shot_calls, hero_failed, regenVars,
                  toolVars, countVars >>

\* a variation entry has no isHero key: reading it yields a false value
VariationEntry ==
  [id |-> completed + 1, variationType |-> shot_id, isHero |-> FALSE,
   consistencyScore |-> best_score, attempts |-> attempts,
   lowConfidence |-> (best_score <= VERIFICATION_THRESHOLD)]

VSaveBest ==
  /\ pc = "v_save_best"
  /\ IF best_image_data
       THEN /\ manifest' = save_image_to_manifest(manifest, VariationEntry)
            /\ status' = MirrorImages(status, manifest'.images)
            /\ completed' = completed + 1
            /\ UNCHANGED skipped
       ELSE /\ skipped' = skipped \cup {shot_id}
            /\ UNCHANGED << storeVars, completed >>
  /\ pc' = "v_for"
  /\ UNCHANGED << from_hero, shots_list, for_stop, i, attempts, best_score,
                  best_image_data, loopVars, attempt_log, shot_calls,
                  hero_failed, regenVars, toolVars, countVars >>

VFinal ==
  /\ pc = "v_for"
  /\ ~ (i < LastIndex)
  /\ status' = update_status(status,
        [status |-> "complete", progress |-> 100,
         currentImage |-> total_shots, totalImages |-> total_shots])
  /\ Return
  /\ UNCHANGED << manifest, for_stop, skipped, shot_calls, hero_failed,
                  regenVars, toolVars, countVars >>

(***************************************************************************)
(* generate_inspiration_hero.main: a hero image in the style of an         *)
(* inspiration image, left for approval                                    *)
(***************************************************************************)
\* entry and initial status; is_regeneration: --feedback was given, on the
\* hero that waits for approval
InspStart(is_regeneration) ==
  /\ pc = "start"
  /\ r_pc = "idle"
  /\ is_regeneration => AwaitingApproval
  /\ status' = update_status(status,
        [status |-> (IF is_regeneration THEN "regenerating_hero"
                     ELSE "generating_inspiration_hero"),
         progress |-> 5, currentImage |-> 0, totalImages |-> 18,
         flowType |-> "inspiration"])
  /\ pc' = "insp_analyze"
  /\ UNCHANGED << manifest, from_hero, shots_list, for_stop, i, completed,
                  attempts, best_score, best_image_data, loopVars,
                  attempt_log, skipped, shot_calls, hero_failed, regenVars,
                  toolVars, countVars >>

\* the style of the inspiration image has been analysed
InspAnalyzed ==
  /\ pc = "insp_analyze"
  /\ status' = update_status(status, [progress |-> 20])
  /\ pc' = "insp_parse"
  /\ UNCHANGED << manifest, from_hero, shots_list, for_stop, i, completed,
                  attempts, best_score, best_image_data, loopVars,
                  attempt_log, skipped, shot_calls, hero_failed, regenVars,
                  toolVars, countVars >>

\* the user prompt has been parsed
InspParsed ==
  /\ pc = "insp_parse"
  /\ status' = update_status(status, [progress |-> 30])
  /\ pc' = "insp_gen"
  /\ UNCHANGED << manifest, from_hero, shots_list, for_stop, i, completed,
                  attempts, best_score, best_image_data, loopVars,
                  attempt_log, skipped, shot_calls, hero_failed, regenVars,
                  toolVars, countVars >>

\* hero synthesis: no image is an error; else the manifest is written with
\* an empty images list and the job waits for approval
InspGenerate(image_ok) ==
  /\ pc = "insp_gen"
  /\ IF ~ image_ok
       THEN /\ status' = update_status(status, [status |-> "error"])
            /\ pc' = "done"
            /\ UNCHANGED manifest
       ELSE /\ manifest' = [exists |-> TRUE, images |-> << >>]
            /\ status' = update_status(status,
                  [status |-> "awaiting_approval", progress |-> 10,
                   currentImage |-> 1, totalImages |-> 18,
                   flowType |-> "inspiration", hero |-> "hero_facade"])
            /\ pc' = "start"
  /\ UNCHANGED << from_hero, shots_list, for_stop, i, completed, attempts,
                  best_score, best_image_data, loopVars, attempt_log, skipped,
                  shot_calls, hero_failed, regenVars, toolVars, countVars >>

(***************************************************************************)
(* regenerate_single.main                                                  *)
(***************************************************************************)
\* shot ids the regeneration entry point is invoked with: the shots the
\* driver walks, a multi-unit extra and an id that is no shot at all
RegenArgs ==
  {SHOT_TYPES[k] : k \in 1..Min(MaxShots, Len(SHOT_TYPES))}
    \cup {"multi_unit_variety", "not_a_shot"}

\* the manifest holds an entry marked isHero
HasHero(images) == \E k \in 1..Len(images) : images[k].isHero

\* entry of regenerate_single.main up to the generation loop; every failed
\* precondition is sys.exit(1).  hero_file: the file the hero entry names
\* is on disk
RegenBegin(vt, hero_file) ==
  /\ r_pc = "idle"
  /\ regens < MaxRegens
  /\ regens' = regens + 1
  /\ r_attempts' = 0
  /\ r_best_score' = 0
  /\ r_best_image_data' = FALSE
  /\ r_verification' = NoVerification
  /\ r_best_breakdown' = NoVerification
  /\ r_best_image_of' = 0
  /\ r_fixing_prompt' = << >>
  /\ r_variation_prompt' = NoPrompt
  /\ r_log' = << >>
  /\ IF /\ manifest.exists
        /\ get_shot_by_id(vt)
        /\ HasHero(manifest.images)
        /\ hero_file
       THEN /\ variation_type' = vt
            /\ r_pc' = "while"
            /\ r_exit' = "none"
       ELSE /\ variation_type' = "none"
            /\ r_pc' = "idle"
            /\ r_exit' = "error"
  /\ UNCHANGED << storeVars, drvVars, toolVars, countVars >>

\* a regeneration requested while no generation run is under way
RegenStart(vt, hero_file) ==
  /\ pc \in {"start", "done"}
  /\ RegenBegin(vt, hero_file)

RegenSynthesize(image_ok) ==
  /\ r_pc = "while"
  /\ r_attempts < MAX_REGEN_ATTEMPTS
  /\ r_attempts' = r_attempts + 1
  /\ shot_calls' = TRUE
  /\ r_variation_prompt' = VariationPrompt(variation_type, r_fixing_prompt)
  /\ IF ~ image_ok
       THEN /\ r_log' = Append(r_log, NoImage)
            /\ r_pc' = "while"
       ELSE /\ r_log' = r_log
            /\ r_pc' = "verify"
  /\ UNCHANGED << storeVars, from_hero, pc, shots_list, for_stop, i,
                  completed, attempts, best_score, best_image_data, loopVars,
                  attempt_log, skipped, hero_failed, variation_type,
                  r_best_score, r_best_image_data, r_verification, r_best_breakdown, r_best_image_of,
                  r_fixing_prompt, r_exit, regens, toolVars, countVars >>

RegenBestScoreAfter(best, s) == IF s > best THEN s ELSE best

RegenBestImageAfter(best, have, s) == IF s > best THEN TRUE ELSE have

RegenBestBreakdownAfter(best, retained, v) ==
  IF v.total_score > best THEN v ELSE retained

RegenBestImageOfAfter(best, retained, attempt, s) ==
  IF s > best THEN attempt ELSE retained

\* mutant: the regeneration accepts a score equal to the threshold
RegenPasses_AtLeast(s) == s >= VERIFICATION_THRESHOLD

RegenPasses(s) == s > VERIFICATION_THRESHOLD

\* the rubric of the judge the regeneration calls for a shot
RegenJudgeRubric(id) ==
  IF regenerate_single_is_interior_shot(id) THEN "interior" ELSE "exterior"

RegenVerify(s) ==
  /\ r_pc = "verify"
  /\ r_verification' =
       Verification(r_attempts, RegenJudgeRubric(variation_type), s)
  /\ r_log' = Append(r_log, s)
  /\ r_best_score' = RegenBestScoreAfter(r_best_score, s)
  /\ r_best_image_data' = RegenBestImageAfter(r_best_score, r_best_image_data, s)
  /\ r_best_breakdown' =
       RegenBestBreakdownAfter(r_best_score, r_best_breakdown, r_verification')
  /\ r_best_image_of' =
       RegenBestImageOfAfter(r_best_score, r_best_image_of, r_attempts, s)
  /\ IF RegenPasses(s)
       THEN /\ r_pc' = "save_best"
            /\ UNCHANGED r_fixing_prompt
       ELSE /\ r_pc' = "while"
            /\ r_fixing_prompt' = build_fixing_prompt(r_verification')
  /\ UNCHANGED << storeVars, drvVars, variation_type, r_attempts,
                  r_variation_prompt, r_exit, regens, toolVars, countVars >>

RegenWhileExit ==
  /\ r_pc = "while"
  /\ ~ (r_attempts < MAX_REGEN_ATTEMPTS)
  /\ r_pc' = "save_best"
  /\ UNCHANGED << storeVars, drvVars, variation_type, r_attempts,
                  r_best_score, r_best_image_data, rLoopVars, r_log, r_exit,
                  regens, toolVars, countVars >>

RegenLowConfidence(best) == best <= VERIFICATION_THRESHOLD

\* the new entry carries no id of its own: update_manifest gives it the id
\* of the entry it replaces (0 stands for the missing key)
RegenEntry ==
  [id |-> 0, variationType |-> variation_type, isHero |-> FALSE,
   consistencyScore |-> r_best_score, attempts |-> r_attempts,
   lowConfidence |-> RegenLowConfidence(r_best_score)]

\* mutant: a regeneration that retained no image marks the job as failed
RegenSave_StatusError ==
  /\ r_pc = "save_best"
  /\ IF r_best_image_data
       THEN /\ manifest' = [manifest EXCEPT !.images =
                 update_manifest(manifest.images, variation_type, RegenEntry)]
            /\ status' = MirrorImages(status, manifest'.images)
            /\ r_exit' = "ok"
       ELSE /\ r_exit' = "error"
            /\ status' = update_status(status, [status |-> "error"])
            /\ UNCHANGED manifest
  /\ r_pc' = "exit"
  /\ UNCHANGED << drvVars, variation_type, r_attempts, r_best_score,
                  r_best_image_data, rLoopVars, r_log, regens, toolVars, countVars >>

\* "save best image": update_manifest, or exit with an error
RegenSave ==
  /\ r_pc = "save_best"
  /\ IF r_best_image_data
       THEN /\ manifest' = [manifest EXCEPT !.images =
                 update_manifest(manifest.images, variation_type, RegenEntry)]
            /\ status' = MirrorImages(status, manifest'.images)
            /\ r_exit' = "ok"
       ELSE /\ r_exit' = "error"
            /\ UNCHANGED storeVars
  /\ r_pc' = "exit"
  /\ UNCHANGED << drvVars, variation_type, r_attempts, r_best_score,
                  r_best_image_data, rLoopVars, r_log, regens, toolVars, countVars >>

\* the process ends: its locals are gone, the exit code stays
RegenExit ==
  /\ r_pc = "exit"
  /\ r_pc' = "idle"
  /\ variation_type' = "none"
  /\ r_attempts' = 0
  /\ r_best_score' = 0
  /\ r_best_image_data' = FALSE
  /\ r_verification' = NoVerification
  /\ r_best_breakdown' = NoVerification
  /\ r_best_image_of' = 0
  /\ r_fixing_prompt' = << >>
  /\ r_variation_prompt' = NoPrompt
  /\ r_log' = << >>
  /\ UNCHANGED << storeVars, drvVars, r_exit, regens, toolVars, countVars >>

(***************************************************************************)
(* Specification: one job from its creation on                            *)
(***************************************************************************)
Next ==
  \/ \E approved_hero \in BOOLEAN : Start(approved_hero)
  \/ \E project_type \in ProjectTypes, num_units \in UnitCounts :
       Parse(project_type, num_units)
  \/ UseApprovedHero
  \/ HeroStatus
  \/ \E image_ok \in BOOLEAN : HeroGenerate(image_ok)
  \/ ForSkipHero
  \/ ShotStart
  \/ \E image_ok \in BOOLEAN : Synthesize(image_ok)
  \/ \E s \in Scores : Verify(s)
  \/ WhileExit
  \/ SaveBest
  \/ Final
  \/ \E hero_exists \in BOOLEAN : VStart(hero_exists)
  \/ VShotStart
  \/ \E image_ok \in BOOLEAN : VSynthesize(image_ok)
  \/ \E s \in Scores : VVerify(s)
  \/ VWhileExit
  \/ VSaveBest
  \/ VFinal
  \/ \E vt \in RegenArgs, hero_file \in BOOLEAN : RegenStart(vt, hero_file)
  \/ \E image_ok \in BOOLEAN : RegenSynthesize(image_ok)
  \/ \E s \in Scores : RegenVerify(s)
  \/ RegenWhileExit
  \/ RegenSave
  \/ RegenExit

Spec == Init /\ [][Next]_vars

TypeOK ==
  /\ pc \in {"start", "parse", "hero", "hero_gen", "for", "while", "verify",
             "save_best", "done", "v_for", "v_while", "v_verify",
             "v_save_best", "insp_analyze", "insp_parse", "insp_gen",
             "agent"}
  /\ r_pc \in {"idle", "while", "verify", "save_best", "exit"}
  /\ attempts \in 0..MAX_REGEN_ATTEMPTS
  /\ r_attempts \in 0..MAX_REGEN_ATTEMPTS

(***************************************************************************)
(* The inspiration flow: the hero is generated from an inspiration image   *)
(* (and again on feedback) and waits for approval, then the generation run *)
(* is started on the approved hero; a job may also start with the          *)
(* generation run alone                                                    *)
(***************************************************************************)
InspirationNext ==
  \/ \E is_regeneration \in BOOLEAN : InspStart(is_regeneration)
  \/ InspAnalyzed
  \/ InspParsed
  \/ \E image_ok \in BOOLEAN : InspGenerate(image_ok)
  \/ \E approved_hero \in BOOLEAN : Start(approved_hero)
  \/ \E project_type \in ProjectTypes, num_units \in UnitCounts :
       Parse(project_type, num_units)
  \/ UseApprovedHero
  \/ HeroStatus
  \/ \E image_ok \in BOOLEAN : HeroGenerate(image_ok)
  \/ ForSkipHero
  \/ ShotStart
  \/ \E image_ok \in BOOLEAN : Synthesize(image_ok)
  \/ \E s \in Scores : Verify(s)
  \/ WhileExit
  \/ SaveBest
  \/ Final

InspirationSpec == Init /\ [][InspirationNext]_vars

(***************************************************************************)
(* The store functions on drawn arguments: update_status before the agent  *)
(* session, then main.generate_variations, whose agent calls the tools of  *)
(* tools/storage.py in the order and with the arguments it chooses         *)
(***************************************************************************)
\* partial records a caller passes to a status update function
PartialRecords ==
  { [status |-> "generating", progress |-> 50, currentImage |-> 1,
     currentVariation |-> "aerial_view"],
    [status |-> "verifying"],
    [progress |-> 60, message |-> "working"],
    [status |-> "complete", progress |-> 100] }

\* arguments the agent passes to store_image
ToolVariations == {"aerial_view", "night_scene"}
ToolScores == {75, 90}

\* the locals of the generation drivers, which these steps leave alone
runVars == << from_hero, shots_list, for_stop, i, completed, attempts,
              best_score, best_image_data, loopVars, attempt_log, skipped,
              shot_calls, hero_failed >>

\* generate_project.update_status applied to a drawn record
CallUpdateStatus(data) ==
  /\ pc = "start"
  /\ tool_calls < MaxToolCalls
  /\ tool_calls' = tool_calls + 1
  /\ status' = update_status(status, data)
  /\ status_data' = data
  /\ UNCHANGED << manifest, pc, runVars, regenVars, fnVars, ioVars,
                  countVars >>

\* mutant: the initial status of the agent path is "started"
AgentStart_Started ==
  /\ pc = "start"
  /\ status_data' = [status |-> "started", progress |-> 5,
                     currentImage |-> 0, totalImages |-> 8]
  /\ status' = update_job_status(status, manifest, status_data')
  /\ pc' = "agent"
  /\ UNCHANGED << manifest, runVars, regenVars, tool_calls, fnVars, ioVars,
                  countVars >>

\* generate_variations: initial status, then the agent runs
AgentStart ==
  /\ pc = "start"
  /\ status_data' = [status |-> "analyzing", progress |-> 5,
                     currentImage |-> 0, totalImages |-> 8]
  /\ status' = update_job_status(status, manifest, status_data')
  /\ pc' = "agent"
  /\ UNCHANGED << manifest, runVars, regenVars, tool_calls, fnVars, ioVars,
                  countVars >>

\* the agent calls store_image; a missing source file is reported back and
\* nothing is written
ToolStoreImage(source_exists, vt, s, low_confidence) ==
  /\ pc = "agent"
  /\ tool_calls < MaxToolCalls
  /\ tool_calls' = tool_calls + 1
  /\ manifest' = IF source_exists
                   THEN store_image(manifest, vt, s, 1, low_confidence)
                   ELSE manifest
  /\ UNCHANGED << status, status_data, pc, runVars, regenVars, fnVars, ioVars,
                  countVars >>

\* the agent calls update_job_status
ToolUpdateJobStatus(data) ==
  /\ pc = "agent"
  /\ tool_calls < MaxToolCalls
  /\ tool_calls' = tool_calls + 1
  /\ status' = update_job_status(status, manifest, data)
  /\ status_data' = data
  /\ UNCHANGED << manifest, pc, runVars, regenVars, fnVars, ioVars,
                  countVars >>

\* the agent query raised: error status, then the exception goes up
AgentError ==
  /\ pc = "agent"
  /\ status_data' = [status |-> "error", progress |-> 0]
  /\ status' = update_job_status(status, manifest, status_data')
  /\ pc' = "done"
  /\ UNCHANGED << manifest, runVars, regenVars, tool_calls, fnVars, ioVars,
                  countVars >>

\* the agent query ended
AgentEnd ==
  /\ pc = "agent"
  /\ pc' = "done"
  /\ UNCHANGED << storeVars, runVars, regenVars, toolVars, countVars >>

StoreNext ==
  \/ \E data \in PartialRecords : CallUpdateStatus(data)
  \/ AgentStart
  \/ \E source_exists \in BOOLEAN, vt \in ToolVariations, s \in ToolScores,
        low_confidence \in BOOLEAN :
       ToolStoreImage(source_exists, vt, s, low_confidence)
  \/ \E data \in PartialRecords : ToolUpdateJobStatus(data)
  \/ AgentError
  \/ AgentEnd

StoreSpec == Init /\ [][StoreNext]_vars

(***************************************************************************)
(* The loop of any one shot of the plan: a generation run that has stored  *)
(* its hero and got no image for any shot so far stands before each shot   *)
(* of the plan in turn, and a regeneration is asked for any shot id after  *)
(* such a run                                                              *)
(***************************************************************************)
Plans ==
  { get_shots_for_project_type(project_type, num_units) :
      project_type \in ProjectTypes, num_units \in UnitCounts }

AllShotIds ==
  {SHOT_TYPES[k] : k \in 1..Len(SHOT_TYPES)}
    \cup {MULTI_UNIT_EXTRA_SHOTS[k] : k \in 1..Len(MULTI_UNIT_EXTRA_SHOTS)}
    \cup {"not_a_shot"}

\* status.json of a run that generated its hero and is at the for loop
\* after plan entry k, every non-hero shot up to k having got no image
StatusAfterEntry(plan, k) ==
  LET parsing == update_status(EmptyDict,
                   [status |-> "parsing", progress |-> 2, currentImage |-> 0,
                    totalImages |-> 18])
      parsed == update_status(parsing, [totalImages |-> Len(plan)])
      hero == update_status(parsed,
                [status |-> "generating_hero", progress |-> 5,
                 currentImage |-> 1, totalImages |-> 18,
                 currentVariation |-> "hero_facade"])
      stored == MirrorImages(hero, << HeroEntry >>)
  IN IF k = 1 THEN stored
     ELSE update_status(stored,
            [status |-> "generating", progress |-> 100 \div Len(plan),
             currentImage |-> 2, totalImages |-> Len(plan),
             currentVariation |-> plan[k]])

\* the regeneration runs made before the generation run found no manifest
EarlierRegens(n) ==
  /\ IdleRegen
  /\ regens = n
  /\ r_exit = IF n > 0 THEN "error" ELSE "none"

\* the driver at the for loop after plan entry k
DriverBeforeShot(plan, k) ==
  /\ pc = "for"
  /\ from_hero = FALSE
  /\ shots_list = plan
  /\ for_stop = k + 1
  /\ i = k
  /\ completed = 1
  /\ attempts = IF k = 1 THEN 0 ELSE MAX_REGEN_ATTEMPTS
  /\ best_score = 0
  /\ best_image_data = FALSE
  /\ verification = NoVerification
  /\ best_breakdown = NoVerification
  /\ best_image_of = 0
  /\ fixing_prompt = << >>
  /\ variation_prompt = IF k = 1 THEN NoPrompt
                        ELSE VariationPrompt(plan[k], << >>)
  /\ attempt_log = IF k = 1 THEN << >>
                   ELSE [a \in 1..MAX_REGEN_ATTEMPTS |-> NoImage]
  /\ skipped = {plan[j] : j \in 2..k}
  /\ shot_calls = (k > 1)
  /\ hero_failed = FALSE
  /\ manifest = [exists |-> TRUE, images |-> << HeroEntry >>]
  /\ status = StatusAfterEntry(plan, k)

BeforeShot(plan, k) ==
  /\ DriverBeforeShot(plan, k)
  /\ EarlierRegens(MaxRegens)

\* the job after a run that got no image for any non-hero shot
AfterRun(plan) ==
  /\ pc = "done"
  /\ from_hero = FALSE
  /\ shots_list = << >>
  /\ for_stop = Len(plan)
  /\ i = 0
  /\ completed = 0
  /\ IdleLocals
  /\ skipped = {plan[j] : j \in 2..Len(plan)}
  /\ shot_calls = TRUE
  /\ hero_failed = FALSE
  /\ manifest = [exists |-> TRUE, images |-> << HeroEntry >>]
  /\ status = update_status(StatusAfterEntry(plan, Len(plan)),
        [status |-> "complete", progress |-> 100,
         currentImage |-> Len(plan), totalImages |-> Len(plan)])
  /\ EarlierRegens(MaxRegens - 1)

AnyShotInit ==
  /\ IdleTools
  /\ synth_calls = NotCounted
  /\ judge_calls = NotCounted
  /\ \E plan \in Plans :
       \/ \E k \in 1..(Len(plan) - 1) : BeforeShot(plan, k)
       \/ AfterRun(plan)

AnyShotNext ==
  \/ ShotStart
  \/ \E image_ok \in BOOLEAN : Synthesize(image_ok)
  \/ \E s \in Scores : Verify(s)
  \/ WhileExit
  \/ SaveBest
  \/ Final
  \/ \E vt \in AllShotIds, hero_file \in BOOLEAN : RegenStart(vt, hero_file)
  \/ \E image_ok \in BOOLEAN : RegenSynthesize(image_ok)
  \/ \E s \in Scores : RegenVerify(s)
  \/ RegenWhileExit
  \/ RegenSave
  \/ RegenExit

AnyShotSpec == AnyShotInit /\ [][AnyShotNext]_vars

(***************************************************************************)
(* The generation run with a judge that may fail: its call raises, or its  *)
(* reply is not JSON                                                       *)
(***************************************************************************)
JudgeFailureNext ==
  \/ \E approved_hero \in BOOLEAN : Start(approved_hero)
  \/ \E project_type \in ProjectTypes, num_units \in UnitCounts :
       Parse(project_type, num_units)
  \/ UseApprovedHero
  \/ HeroStatus
  \/ \E image_ok \in BOOLEAN : HeroGenerate(image_ok)
  \/ ForSkipHero
  \/ ShotStart
  \/ \E image_ok \in BOOLEAN : Synthesize(image_ok)
  \/ \E reply \in JudgeReplies : Verify(reply)
  \/ WhileExit
  \/ SaveBest
  \/ Final

JudgeFailureSpec == Init /\ [][JudgeFailureNext]_vars

(***************************************************************************)
(* Functions called on drawn arguments: the plan of a project, the fixing  *)
(* text of a judge result                                                  *)
(***************************************************************************)
SeqsUpTo(S, n) == UNION {[1..k -> S] : k \in 0..n}

\* criteria and per-criterion scores of a judge breakdown (0..20 each;
\* 16 is 80% of the maximum)
Criteria == {"building_shape", "materials_facade", "proportions"}
CriterionScores == {0, 15, 16, 20}

\* a breakdown is a JSON object: its keys are distinct and keep their order
Breakdowns ==
  {b \in SeqsUpTo([criterion : Criteria, score : CriterionScores], MaxCriteria) :
     \A j, k \in 1..Len(b) : j # k => b[j].criterion # b[k].criterion}

IssueTexts == {"roof differs", "window grid differs"}
SuggestionTexts == {"match the roof"}

\* judge results: the full object, the object of the failure branch of
\* regenerate_single.verify_image (no suggestions key), an object with
\* nothing but the score
VerificationResults ==
  {[total_score |-> 0, breakdown |-> b, issues |-> is, suggestions |-> su] :
     b \in Breakdowns, is \in SeqsUpTo(IssueTexts, MaxIssues),
     su \in SeqsUpTo(SuggestionTexts, 1)}
  \cup {[total_score |-> 0, breakdown |-> << >>, issues |-> is] :
          is \in SeqsUpTo(IssueTexts, MaxIssues)}
  \cup {[total_score |-> 0]}

\* dict.get(key, default)
dict_get(d, key, default) == IF key \in DOMAIN d THEN d[key] ELSE default

\* mutant: a criterion that scores exactly 16 gets a directive too
RECURSIVE fix_lines_AtMost16(_)
fix_lines_AtMost16(breakdown) ==
  IF breakdown = << >> THEN << >>
  ELSE LET head == breakdown[1]
           rest == fix_lines_AtMost16(SubSeq(breakdown, 2, Len(breakdown)))
       IN IF head.score <= 16
            THEN << << "fix", head.criterion, head.score >> >> \o rest
            ELSE rest

\* the lines the loop over the breakdown appends
RECURSIVE fix_lines(_)
fix_lines(breakdown) ==
  IF breakdown = << >> THEN << >>
  ELSE LET head == breakdown[1]
           rest == fix_lines(SubSeq(breakdown, 2, Len(breakdown)))
       IN IF head.score < 16
            THEN << << "fix", head.criterion, head.score >> >> \o rest
            ELSE rest

issue_lines(issues) == [k \in 1..Len(issues) |-> << "issue", issues[k] >>]

suggestion_lines(suggestions) ==
  [k \in 1..Len(suggestions) |-> << "suggestion", suggestions[k] >>]

\* generate_images.build_fixing_prompt: the lines, no frame
generate_images_build_fixing_prompt(verification_result) ==
  fix_lines(dict_get(verification_result, "breakdown", << >>))
    \o issue_lines(dict_get(verification_result, "issues", << >>))
    \o suggestion_lines(dict_get(verification_result, "suggestions", << >>))

\* generate_project.build_fixing_prompt: the lines inside the frame
generate_project_build_fixing_prompt(verification_result) ==
  << << "<fixes_required>" >> >>
    \o fix_lines(dict_get(verification_result, "breakdown", << >>))
    \o issue_lines(dict_get(verification_result, "issues", << >>))
    \o suggestion_lines(dict_get(verification_result, "suggestions", << >>))
    \o << << "</fixes_required>" >> >>

\* regenerate_single.build_fixing_prompt: the same frame and lines
regenerate_single_build_fixing_prompt(verification_result) ==
  << << "<fixes_required>" >> >>
    \o fix_lines(dict_get(verification_result, "breakdown", << >>))
    \o issue_lines(dict_get(verification_result, "issues", << >>))
    \o suggestion_lines(dict_get(verification_result, "suggestions", << >>))
    \o << << "</fixes_required>" >> >>

\* the calls drawn
PlanCalls ==
  {[fn |-> "get_shots_for_project_type", project_type |-> project_type,
    num_units |-> num_units] :
     project_type \in ProjectTypes, num_units \in 1..MaxUnits}

FixingCalls ==
  {[fn |-> "build_fixing_prompt", module |-> module,
    verification_result |-> verification_result] :
     module \in {"generate_project", "regenerate_single", "generate_images"},
     verification_result \in VerificationResults}

FunctionInit ==
  /\ status = EmptyDict
  /\ manifest = [exists |-> FALSE, images |-> << >>]
  /\ from_hero = FALSE
  /\ pc = "start"
  /\ shots_list = << >>
  /\ for_stop = MaxShots
  /\ i = 0
  /\ completed = 0
  /\ IdleLocals
  /\ skipped = {}
  /\ shot_calls = FALSE
  /\ hero_failed = FALSE
  /\ IdleRegen
  /\ r_exit = "none"
  /\ regens = 0
  /\ status_data = EmptyDict
  /\ tool_calls = 0
  /\ call_args \in PlanCalls \cup FixingCalls
  /\ call_result = NoResult
  /\ save_manifest = << >>
  /\ save_status = EmptyDict
  /\ upd_manifest = << >>
  /\ upd_status = EmptyDict
  /\ synth_calls = NotCounted
  /\ judge_calls = NotCounted

Returns(value) ==
  /\ call_result = NoResult
  /\ call_result' = [returned |-> TRUE, value |-> value]
  /\ UNCHANGED << storeVars, drvVars, regenVars, status_data, tool_calls,
                  call_args, ioVars, countVars >>

CallGetShots ==
  /\ call_args.fn = "get_shots_for_project_type"
  /\ Returns(get_shots_for_project_type(call_args.project_type,
                                        call_args.num_units))

CallBuildFixingPrompt ==
  /\ call_args.fn = "build_fixing_prompt"
  /\ call_args.module = "generate_project"
  /\ Returns(generate_project_build_fixing_prompt(call_args.verification_result))

CallRegenBuildFixingPrompt ==
  /\ call_args.fn = "build_fixing_prompt"
  /\ call_args.module = "regenerate_single"
  /\ Returns(regenerate_single_build_fixing_prompt(call_args.verification_result))

CallImagesBuildFixingPrompt ==
  /\ call_args.fn = "build_fixing_prompt"
  /\ call_args.module = "generate_images"
  /\ Returns(generate_images_build_fixing_prompt(call_args.verification_result))

FunctionNext ==
  \/ CallGetShots
  \/ CallBuildFixingPrompt
  \/ CallRegenBuildFixingPrompt
  \/ CallImagesBuildFixingPrompt

FunctionSpec == FunctionInit /\ [][FunctionNext]_vars

(***************************************************************************)
(* A generation run and a single-shot regeneration on the same job at the  *)
(* same time.  save_image_to_manifest and update_manifest take no lock:    *)
(* each is a load of manifest.json, a dump of manifest.json, a load of     *)
(* status.json and a dump of status.json, and the steps of the two         *)
(* processes interleave.  (update_status stays one step here: the runs     *)
(* of this specification are a subset of the interleavings of the code.)   *)
(***************************************************************************)
\* save_image_to_manifest: json.load of the manifest and the append to the
\* loaded copy; nothing is saved when no attempt retained an image
SaveLoad ==
  /\ pc = "save_best"
  /\ IF best_image_data
       THEN /\ save_manifest' =
                 save_image_to_manifest(manifest, ImageEntry).images
            /\ pc' = "save_manifest_dump"
            /\ UNCHANGED skipped
       ELSE /\ skipped' = skipped \cup {shot_id}
            /\ pc' = "for"
            /\ UNCHANGED save_manifest
  /\ UNCHANGED << storeVars, from_hero, shots_list, for_stop, i, completed,
                  attempts, best_score, best_image_data, loopVars,
                  attempt_log, shot_calls, hero_failed, regenVars,
                  status_data, tool_calls, fnVars, save_status, upd_manifest,
                  upd_status, countVars >>

\* save_image_to_manifest: json.dump of the copy
SaveDump ==
  /\ pc = "save_manifest_dump"
  /\ manifest' = [exists |-> TRUE, images |-> save_manifest]
  /\ pc' = "save_status_load"
  /\ UNCHANGED << status, from_hero, shots_list, for_stop, i, completed,
                  attempts, best_score, best_image_data, loopVars,
                  attempt_log, skipped, shot_calls, hero_failed, regenVars,
                  toolVars, countVars >>

\* save_image_to_manifest: json.load of the status document
SaveStatusLoad ==
  /\ pc = "save_status_load"
  /\ save_status' = status
  /\ pc' = "save_status_dump"
  /\ UNCHANGED << storeVars, from_hero, shots_list, for_stop, i, completed,
                  attempts, best_score, best_image_data, loopVars,
                  attempt_log, skipped, shot_calls, hero_failed, regenVars,
                  status_data, tool_calls, fnVars, save_manifest,
                  upd_manifest, upd_status, countVars >>

\* save_image_to_manifest: json.dump of the status copy with the images of
\* the manifest copy; the call returns and the shot counts as completed
SaveStatusDump ==
  /\ pc = "save_status_dump"
  /\ status' = MirrorImages(save_status, save_manifest)
  /\ completed' = completed + 1
  /\ save_manifest' = << >>
  /\ save_status' = EmptyDict
  /\ pc' = "for"
  /\ UNCHANGED << manifest, from_hero, shots_list, for_stop, i, attempts,
                  best_score, best_image_data, loopVars, attempt_log, skipped,
                  shot_calls, hero_failed, regenVars, status_data, tool_calls,
                  fnVars, upd_manifest, upd_status, countVars >>

\* update_manifest: json.load of the manifest and the replacement in the
\* loaded copy; without a retained image the process exits with an error
UpdLoad ==
  /\ r_pc = "save_best"
  /\ IF r_best_image_data
       THEN /\ upd_manifest' =
                 update_manifest(manifest.images, variation_type, RegenEntry)
            /\ r_pc' = "upd_manifest_dump"
            /\ UNCHANGED r_exit
       ELSE /\ r_exit' = "error"
            /\ r_pc' = "exit"
            /\ UNCHANGED upd_manifest
  /\ UNCHANGED << storeVars, drvVars, variation_type, r_attempts,
                  r_best_score, r_best_image_data, rLoopVars, r_log, regens,
                  status_data, tool_calls, fnVars, save_manifest, save_status,
                  upd_status, countVars >>

\* update_manifest: json.dump of the copy
UpdDump ==
  /\ r_pc = "upd_manifest_dump"
  /\ manifest' = [manifest EXCEPT !.images = upd_manifest]
  /\ r_pc' = "upd_status_load"
  /\ UNCHANGED << status, drvVars, variation_type, r_attempts, r_best_score,
                  r_best_image_data, rLoopVars, r_log, r_exit, regens,
                  toolVars, countVars >>

\* update_manifest: json.load of the status document
UpdStatusLoad ==
  /\ r_pc = "upd_status_load"
  /\ upd_status' = status
  /\ r_pc' = "upd_status_dump"
  /\ UNCHANGED << storeVars, drvVars, variation_type, r_attempts,
                  r_best_score, r_best_image_data, rLoopVars, r_log, r_exit,
                  regens, status_data, tool_calls, fnVars, save_manifest,
                  save_status, upd_manifest, countVars >>

\* update_manifest: json.dump of the status copy with the images of the
\* manifest copy; the regeneration is complete
UpdStatusDump ==
  /\ r_pc = "upd_status_dump"
  /\ status' = MirrorImages(upd_status, upd_manifest)
  /\ upd_manifest' = << >>
  /\ upd_status' = EmptyDict
  /\ r_exit' = "ok"
  /\ r_pc' = "exit"
  /\ UNCHANGED << manifest, drvVars, variation_type, r_attempts,
                  r_best_score, r_best_image_data, rLoopVars, r_log, regens,
                  status_data, tool_calls, fnVars, save_manifest, save_status,
                  countVars >>

\* the generation run has stored its hero and is at the for loop before
\* the second shot of the plan, the last one it walks here; the job has
\* seen MaxRegens - 1 regeneration requests, made before the manifest
\* existed
ConcurrentInit ==
  /\ IdleTools
  /\ synth_calls = NotCounted
  /\ judge_calls = NotCounted
  /\ \E plan \in Plans :
       /\ pc = "for"
       /\ from_hero = FALSE
       /\ shots_list = plan
       /\ for_stop = 2
       /\ i = 1
       /\ completed = 1
       /\ IdleLocals
       /\ skipped = {}
       /\ shot_calls = FALSE
       /\ hero_failed = FALSE
       /\ manifest = [exists |-> TRUE, images |-> << HeroEntry >>]
       /\ status = StatusAfterEntry(plan, 1)
       /\ EarlierRegens(MaxRegens - 1)

\* judge scores at the threshold: one that fails it and one that passes it
ThresholdScores == {s \in Scores : s >= VERIFICATION_THRESHOLD}

ConcurrentNext ==
  \/ ShotStart
  \/ \E image_ok \in BOOLEAN : Synthesize(image_ok)
  \/ \E s \in ThresholdScores : Verify(s)
  \/ WhileExit
  \/ SaveLoad
  \/ SaveDump
  \/ SaveStatusLoad
  \/ SaveStatusDump
  \/ Final
  \/ \E vt \in RegenArgs, hero_file \in BOOLEAN : RegenBegin(vt, hero_file)
  \/ \E image_ok \in BOOLEAN : RegenSynthesize(image_ok)
  \/ \E s \in ThresholdScores : RegenVerify(s)
  \/ RegenWhileExit
  \/ UpdLoad
  \/ UpdDump
  \/ UpdStatusLoad
  \/ UpdStatusDump
  \/ RegenExit

ConcurrentSpec == ConcurrentInit /\ [][ConcurrentNext]_vars

(***************************************************************************)
(* One generation run followed to its end, its synthesis and judge calls   *)
(* counted.  Every external call returns, so the process takes its next    *)
(* step as long as it has one.                                             *)
(***************************************************************************)
RunInit ==
  /\ NewJob
  /\ synth_calls = 0
  /\ judge_calls = 0

RunNext ==
  \/ \E approved_hero \in BOOLEAN : Start(approved_hero)
  \/ \E project_type \in ProjectTypes, num_units \in UnitCounts :
       Parse(project_type, num_units)
  \/ UseApprovedHero
  \/ HeroStatus
  \/ \E image_ok \in BOOLEAN : HeroGenerate(image_ok)
  \/ ForSkipHero
  \/ ShotStart
  \/ \E image_ok \in BOOLEAN : Synthesize(image_ok)
  \/ \E s \in ThresholdScores : Verify(s)
  \/ WhileExit
  \/ SaveBest
  \/ Final
  \/ \E hero_exists \in BOOLEAN : VStart(hero_exists)
  \/ VShotStart
  \/ \E image_ok \in BOOLEAN : VSynthesize(image_ok)
  \/ \E s \in ThresholdScores : VVerify(s)
  \/ VWhileExit
  \/ VSaveBest
  \/ VFinal

RunSpec == RunInit /\ [][RunNext]_vars /\ WF_vars(RunNext)

(***************************************************************************)
(* The per-shot loop of the generation driver and the loop of the          *)
(* single-shot regeneration on the same shot, fed the same outcome per     *)
(* attempt: no image, or an image and the score the judge gives it         *)
(***************************************************************************)
LoopOutcomes == [1..MAX_REGEN_ATTEMPTS -> {NoImage} \cup Scores]

\* the longest plan: every shot has its loop
LongestPlan == get_shots_for_project_type("apartments", 2)

\* the driver is at the for loop before a shot, the regeneration has not
\* been requested yet, the outcomes of the attempts are fixed
LoopsInit ==
  /\ status_data = EmptyDict
  /\ tool_calls = 0
  /\ call_args \in {[fn |-> "loop", outcomes |-> o] : o \in LoopOutcomes}
  /\ call_result = NoResult
  /\ save_manifest = << >>
  /\ save_status = EmptyDict
  /\ upd_manifest = << >>
  /\ upd_status = EmptyDict
  /\ synth_calls = NotCounted
  /\ judge_calls = NotCounted
  /\ \E k \in 1..(Len(LongestPlan) - 1) :
       /\ DriverBeforeShot(LongestPlan, k)
       /\ EarlierRegens(MaxRegens - 1)

\* the regeneration of the shot the driver is at
LoopsNext ==
  \/ ShotStart
  \/ /\ attempts < MAX_REGEN_ATTEMPTS
     /\ Synthesize(call_args.outcomes[attempts + 1] # NoImage)
  \/ /\ attempts >= 1
     /\ Verify(call_args.outcomes[attempts])
  \/ WhileExit
  \/ /\ pc # "for"
     /\ RegenBegin(shot_id, TRUE)
  \/ /\ r_attempts < MAX_REGEN_ATTEMPTS
     /\ RegenSynthesize(call_args.outcomes[r_attempts + 1] # NoImage)
  \/ /\ r_attempts >= 1
     /\ RegenVerify(call_args.outcomes[r_attempts])
  \/ RegenWhileExit

LoopsSpec == LoopsInit /\ [][LoopsNext]_vars

(***************************************************************************)
(* The entry points that write the status of a job: the inspiration hero   *)
(* generation and its regeneration on feedback, the generation run, and    *)
(* main.generate_variations with the status tool of its agent              *)
(***************************************************************************)
EntryPointsNext ==
  \/ InspirationNext
  \/ AgentStart
  \/ \E source_exists \in BOOLEAN, vt \in ToolVariations, s \in ToolScores,
        low_confidence \in BOOLEAN :
       ToolStoreImage(source_exists, vt, s, low_confidence)
  \/ \E data \in PartialRecords : ToolUpdateJobStatus(data)
  \/ AgentError
  \/ AgentEnd

EntryPointsSpec == Init /\ [][EntryPointsNext]_vars

(***************************************************************************)
(* Vocabulary of the properties                                            *)
(***************************************************************************)
\* the judge scores recorded in an attempt log
JudgedScores(log) == {log[k] : k \in 1..Len(log)} \ {NoImage}

\* the largest judge score of a log that holds at least one
MaxScore(log) ==
  CHOOSE m \in JudgedScores(log) : \A x \in JudgedScores(log) : x <= m

\* the driver has just finished the loop of a non-hero shot (SaveBest ran)
ShotDecided == pc = "for" /\ i > 0 /\ shot_id # "hero_facade"

\* ... and stored it
ShotStored == ShotDecided /\ FindEntry(manifest.images, shot_id) # 0

\* the variations driver has just stored the current variation
VariationStored ==
  pc = "v_for" /\ i > 0 /\ FindEntry(manifest.images, shot_id) # 0

\* the entry the driver stored for the current shot
ShotEntry == manifest.images[FindEntry(manifest.images, shot_id)]

\* a regeneration run has just stored its result (RegenSave ran)
RegenStored ==
  /\ r_pc = "exit"
  /\ r_exit = "ok"
  /\ FindEntry(manifest.images, variation_type) # 0

\* the entry the regeneration run replaced
RegenStoredEntry == manifest.images[FindEntry(manifest.images, variation_type)]

\* some recorded attempt passed the acceptance threshold
SomePass(log) == \E k \in 1..Len(log) : log[k] > VERIFICATION_THRESHOLD

Last(log) == log[Len(log)]

(***************************************************************************)
(* C1: the score stored for a shot, by the driver and by single-shot       *)
(* regeneration, is the maximum of the judge scores of all attempts of     *)
(* that shot, and the running best score never decreases from one attempt  *)
(* to the next.                                                            *)
(***************************************************************************)
C1_StoredIsMax ==
  /\ ShotStored =>
       /\ JudgedScores(attempt_log) # {}
       /\ ShotEntry.consistencyScore = MaxScore(attempt_log)
  /\ RegenStored =>
       /\ JudgedScores(r_log) # {}
       /\ RegenStoredEntry.consistencyScore = MaxScore(r_log)

C1_BestNeverDecreases ==
  /\ pc \in {"while", "verify"} => best_score' >= best_score
  /\ r_pc \in {"while", "verify"} => r_best_score' >= r_best_score

C1_MaxScoreRetained == [] C1_StoredIsMax /\ [][C1_BestNeverDecreases]_vars

\* a shot stored after a worse attempt followed a better one
C1_Witness ==
  /\ ShotStored
  /\ attempt_log = << 80, NoImage, 75 >>
  /\ ShotEntry.consistencyScore = 80

(***************************************************************************)
(* C2: every manifest entry has 1 <= attempts <= MAX_REGEN_ATTEMPTS, and   *)
(* the attempts stored for a shot count every iteration of its loop, the   *)
(* iterations without an image included.                                   *)
(***************************************************************************)
C2_AttemptsInRange ==
  /\ \A k \in 1..Len(manifest.images) :
       /\ 1 <= manifest.images[k].attempts
       /\ manifest.images[k].attempts <= MAX_REGEN_ATTEMPTS
  /\ ShotStored => ShotEntry.attempts = Len(attempt_log)
  /\ VariationStored => ShotEntry.attempts = Len(attempt_log)
  /\ RegenStored => RegenStoredEntry.attempts = Len(r_log)

\* a stored shot two of whose three iterations produced no image
C2_Witness ==
  /\ ShotStored
  /\ attempt_log = << NoImage, NoImage, 75 >>
  /\ ShotEntry.attempts = MAX_REGEN_ATTEMPTS

(***************************************************************************)
(* C3: for every stored non-hero entry, lowConfidence is true iff the      *)
(* stored score does not exceed the threshold; a best score equal to the   *)
(* threshold is stored with lowConfidence = true.                          *)
(***************************************************************************)
C3_LowConfidenceIffNotAbove ==
  \A k \in 1..Len(manifest.images) :
    ~ manifest.images[k].isHero =>
      (manifest.images[k].lowConfidence <=>
         manifest.images[k].consistencyScore <= VERIFICATION_THRESHOLD)

\* three scores none of which exceeds the threshold, [0, 75, 75]: attempts 3,
\* stored 75, low confidence; and another shot stored with a best score
\* equal to the threshold
C3_Witness ==
  /\ ShotStored
  /\ attempt_log = << 0, 75, 75 >>
  /\ ShotEntry.attempts = 3
  /\ ShotEntry.consistencyScore = 75
  /\ ShotEntry.lowConfidence
  /\ \E k \in 1..Len(manifest.images) :
       /\ manifest.images[k].consistencyScore = VERIFICATION_THRESHOLD
       /\ manifest.images[k].lowConfidence

(***************************************************************************)
(* C4: for every stored non-hero entry, lowConfidence is true iff all      *)
(* MAX_REGEN_ATTEMPTS attempts were consumed and none scored above the     *)
(* threshold; so lowConfidence implies attempts = MAX_REGEN_ATTEMPTS, and  *)
(* an entry without lowConfidence holds the score of the last attempt.     *)
(***************************************************************************)
C4_Entry(e, log) ==
  /\ e.lowConfidence <=>
       (Len(log) = MAX_REGEN_ATTEMPTS /\ ~ SomePass(log))
  /\ e.lowConfidence => e.attempts = MAX_REGEN_ATTEMPTS
  /\ ~ e.lowConfidence => e.consistencyScore = Last(log)

C4_LowConfidenceIffExhausted ==
  /\ ShotStored => C4_Entry(ShotEntry, attempt_log)
  /\ RegenStored => C4_Entry(RegenStoredEntry, r_log)
  /\ \A k \in 1..Len(manifest.images) :
       manifest.images[k].lowConfidence =>
         manifest.images[k].attempts = MAX_REGEN_ATTEMPTS

\* a shot that passed on its last slot: all attempts consumed, not flagged
C4_Witness ==
  /\ ShotStored
  /\ attempt_log = << 80, 75, 90 >>
  /\ ~ ShotEntry.lowConfidence
  /\ ShotEntry.consistencyScore = 90

(***************************************************************************)
(* C5: once an attempt scores strictly above the threshold the loop of     *)
(* that shot ends: the passing attempt is the last one recorded, no        *)
(* synthesis or judge step is pending, and the attempts stored are the     *)
(* attempts made up to it.                                                 *)
(***************************************************************************)
C5_Loop(log, at, n) ==
  \A k \in 1..Len(log) :
    log[k] > VERIFICATION_THRESHOLD =>
      /\ k = Len(log)
      /\ n = k
      /\ at \notin {"while", "verify"}

C5_EarlyExit ==
  /\ C5_Loop(attempt_log, pc, attempts)
  /\ C5_Loop(r_log, r_pc, r_attempts)
  /\ (ShotDecided /\ SomePass(attempt_log)) =>
       /\ ShotStored
       /\ ShotEntry.attempts = Len(attempt_log)
       /\ ~ ShotEntry.lowConfidence

\* scores [75, 90, -]: attempts 2, not low confidence, stored score 90
C5_Witness ==
  /\ ShotStored
  /\ attempt_log = << 75, 90 >>
  /\ ShotEntry.attempts = 2
  /\ ~ ShotEntry.lowConfidence
  /\ ShotEntry.consistencyScore = 90

(***************************************************************************)
(* C6: a non-hero shot whose synthesis returns no image on every attempt   *)
(* gets no manifest entry: the manifest is left unchanged by that shot,    *)
(* the shot is reported as skipped, the driver goes on with the for loop   *)
(* and a run that skipped a shot still ends with status complete.          *)
(***************************************************************************)
AllVoid(log) ==
  /\ Len(log) = MAX_REGEN_ATTEMPTS
  /\ \A k \in 1..Len(log) : log[k] = NoImage

C6_SkippedState ==
  /\ (ShotDecided /\ AllVoid(attempt_log)) =>
       /\ FindEntry(manifest.images, shot_id) = 0
       /\ shot_id \in skipped
  /\ (pc = "done" /\ skipped # {}) => status.status = "complete"

C6_SkipStep ==
  (pc = "save_best" /\ AllVoid(attempt_log)) =>
    /\ manifest' = manifest
    /\ skipped' = skipped \cup {shot_id}
    /\ pc' = "for"

C6_VoidShotSkipped == [] C6_SkippedState /\ [][C6_SkipStep]_vars

\* the first non-hero shot was skipped for want of an image, the manifest
\* holds the hero only and the for loop has a next shot to go on with
C6_Witness ==
  /\ ShotDecided
  /\ AllVoid(attempt_log)
  /\ skipped = {shot_id}
  /\ Len(manifest.images) = 1
  /\ i < LastIndex

(***************************************************************************)
(* C7: a non-hero shot that exhausts its attempts without passing, but     *)
(* for which at least one attempt produced an image, is still stored and   *)
(* flagged lowConfidence, whatever judge scores in 0..100 were returned.   *)
(***************************************************************************)
C7_Exhausted(log) == JudgedScores(log) # {} /\ ~ SomePass(log)

C7_BestEffortStored ==
  /\ (ShotDecided /\ C7_Exhausted(attempt_log)) =>
       (ShotStored /\ ShotEntry.lowConfidence)
  /\ (r_pc = "exit" /\ C7_Exhausted(r_log)) => r_exit = "ok"

(***************************************************************************)
(* C8: if hero synthesis returns no image the driver sets status error     *)
(* and returns: no other synthesis call is ever made, the manifest's       *)
(* images stay empty and the status never becomes complete.                *)
(***************************************************************************)
C8_HeroFailureFatal ==
  hero_failed =>
    /\ pc = "done"
    /\ status.status = "error"
    /\ ~ shot_calls
    /\ manifest.exists
    /\ manifest.images = << >>

\* the hero failed and a later regeneration request was turned down
C8_Witness ==
  /\ hero_failed
  /\ regens = 1
  /\ r_exit = "error"

(***************************************************************************)
(* C9: in every reachable manifest state the entry of the hero shot        *)
(* (hero_facade) has consistencyScore 100 and lowConfidence false.         *)
(***************************************************************************)
C9_HeroEntryMaximal ==
  \A k \in 1..Len(manifest.images) :
    manifest.images[k].variationType = "hero_facade" =>
      /\ manifest.images[k].consistencyScore = 100
      /\ ~ manifest.images[k].lowConfidence

(***************************************************************************)
(* C10: single-shot regeneration of a shot that has a manifest entry       *)
(* replaces that entry in place: the entry keeps its id and its index,     *)
(* the number of entries is unchanged and every other entry is unchanged;  *)
(* no other step of a regeneration run touches the manifest.               *)
(***************************************************************************)
C10_Step ==
  LET idx == FindEntry(manifest.images, variation_type) IN
    /\ r_pc = "save_best" =>
         /\ Len(manifest'.images) = Len(manifest.images)
         /\ \A k \in 1..Len(manifest.images) :
              k # idx => manifest'.images[k] = manifest.images[k]
         /\ idx # 0 =>
              /\ manifest'.images[idx].id = manifest.images[idx].id
              /\ manifest'.images[idx].variationType = variation_type
              /\ FindEntry(manifest'.images, variation_type) = idx
         /\ (idx # 0 /\ r_best_image_data) =>
              manifest'.images[idx] =
                [RegenEntry EXCEPT !.id = manifest.images[idx].id]
    /\ (pc = "done" /\ r_pc # "save_best") => manifest' = manifest

C10_ReplaceInPlace == [][C10_Step]_vars

\* the second of three entries was regenerated and still carries id 2
C10_Witness ==
  /\ RegenStored
  /\ Len(manifest.images) = 3
  /\ FindEntry(manifest.images, variation_type) = 2
  /\ RegenStoredEntry.id = 2
  /\ RegenStoredEntry.attempts = Len(r_log)


(***************************************************************************)
(* Job status: progress, order of the status values, terminal values       *)
(***************************************************************************)
\* the status value of a status document ("created" before the first write)
StatusOf(doc) == IF "status" \in DOMAIN doc THEN doc.status ELSE "created"

\* C11: across all the status updates written for one job, the progress
\* field never takes a value lower than one written earlier
C11_ProgressNeverDecreases ==
  [][("progress" \in DOMAIN status /\ "progress" \in DOMAIN status')
       => status'.progress >= status.progress]_vars

\* position of a status value in the order parsing, generating_hero or
\* awaiting_approval, generating, verifying, complete (0: not in the order)
C12_Rank(s) ==
  CASE s = "parsing" -> 1
    [] s \in {"generating_hero", "awaiting_approval"} -> 2
    [] s = "generating" -> 3
    [] s = "verifying" -> 4
    [] s = "complete" -> 5
    [] OTHER -> 0

\* C12 as stated: every change of the status field between two values of
\* the order goes to the same or a later value of the order (a change to
\* error is always allowed); the status never moves back
C12_NeverMovesBack ==
  [][(C12_Rank(StatusOf(status)) > 0 /\ C12_Rank(StatusOf(status')) > 0)
       => C12_Rank(StatusOf(status')) >= C12_Rank(StatusOf(status))]_vars

\* stage of a job: created, parsing, hero stage, shot stage, complete
C12_Stage(s) ==
  CASE s = "created" -> 0
    [] s = "parsing" -> 1
    [] s \in {"generating_hero", "generating_inspiration_hero",
              "regenerating_hero", "awaiting_approval"} -> 2
    [] s \in {"generating", "verifying"} -> 3
    [] OTHER -> 4

\* C12 amended: generating and verifying alternate within the shot stage
\* (each shot writes generating again at its start); apart from that a
\* change of the status field goes to error or to the same or a later
\* stage of created, parsing, hero stage, shot stage, complete, except
\* that the generation run started on an approved hero writes parsing
\* after awaiting_approval
C12_StageOrder ==
  [][StatusOf(status') # StatusOf(status)
       => \/ StatusOf(status') = "error"
          \/ C12_Stage(StatusOf(status')) >= C12_Stage(StatusOf(status))
          \/ /\ StatusOf(status) = "awaiting_approval"
             /\ StatusOf(status') = "parsing"]_vars

\* the second non-hero shot of a run starts (verifying was written for the
\* first one, generating is written again)
C12_Witness ==
  /\ pc = "while"
  /\ attempts = 0
  /\ i = 3
  /\ StatusOf(status) = "generating"
  /\ Len(manifest.images) = 2

\* complete and error are the terminal status values
Terminal(doc) == StatusOf(doc) \in {"complete", "error"}

PlanIndex(id) ==
  IF \E k \in 1..Len(shots_list) : shots_list[k] = id
    THEN CHOOSE k \in 1..Len(shots_list) : shots_list[k] = id
    ELSE 0

\* plan entries decided so far: the hero (entry 1) once the hero stage is
\* over, all up to i at the for statement, all before i inside the loop of
\* shot i
C14_Decided ==
  IF pc = "for" THEN (IF i = 0 THEN 1 ELSE i) ELSE i - 1

\* C14: whenever the run is at or inside the shot loop (where every
\* non-hero synthesis call is made) the hero entry is the first manifest
\* entry, the entries follow the plan order, only shots whose loop has
\* ended have an entry, and every non-hero shot before the current one
\* has been stored or skipped
C14_PlanOrder ==
  pc \in {"for", "while", "verify", "save_best"} =>
    LET images == manifest.images IN
      /\ Len(images) >= 1
      /\ images[1].variationType = "hero_facade"
      /\ images[1].isHero
      /\ shots_list[1] = "hero_facade"
      /\ \A a \in 1..Len(images) :
           /\ PlanIndex(images[a].variationType) > 0
           /\ PlanIndex(images[a].variationType) <= C14_Decided
           /\ \A b \in 1..Len(images) :
                a < b => PlanIndex(images[a].variationType)
                           < PlanIndex(images[b].variationType)
      /\ \A k \in 2..C14_Decided :
           \/ FindEntry(images, shots_list[k]) # 0
           \/ shots_list[k] \in skipped

\* the second plan entry was skipped and the third stored
C14_Witness ==
  /\ pc = "for"
  /\ i = 3
  /\ shots_list[2] \in skipped
  /\ Len(manifest.images) = 2
  /\ manifest.images[2].variationType = shots_list[3]

(***************************************************************************)
(* The two stores: status images, merge of a status update                 *)
(***************************************************************************)
\* the images list a poller reads from the status document
StatusImages == IF "images" \in DOMAIN status THEN status.images ELSE << >>

\* C15: after every operation that writes manifest.images, and before any
\* other operation on the job runs, the images list of the status document
\* equals manifest.images
C15_StatusMirrorsManifest ==
  manifest.exists => StatusImages = manifest.images

\* keys a status update may change besides those of its record: updated_at,
\* and images when the update is update_job_status (the agent's tool)
C16_OwnKeys == IF pc' = "start" THEN {"updated_at"} ELSE {"updated_at", "images"}

\* C16: a status update with partial record D leaves every key of D set to
\* D's value and updated_at set, adds no key other than those of D,
\* updated_at and (update_job_status) images, and every other key holds
\* the value it had before
C16_MergeFrame ==
  [][(status' # status \/ status_data' # status_data) =>
       /\ \A k \in DOMAIN status_data' :
            k \in DOMAIN status' /\ status'[k] = status_data'[k]
       /\ "updated_at" \in DOMAIN status'
       /\ status'.updated_at = Now
       /\ DOMAIN status' \subseteq
            DOMAIN status \cup DOMAIN status_data' \cup C16_OwnKeys
       /\ \A k \in DOMAIN status \ (DOMAIN status_data' \cup C16_OwnKeys) :
            k \in DOMAIN status' /\ status'[k] = status[k]]_vars

\* an update of the status field alone has kept the progress, the current
\* variation and the mirrored images an earlier update wrote
C16_Witness ==
  /\ status_data = [status |-> "verifying"]
  /\ StatusOf(status) = "verifying"
  /\ "currentVariation" \in DOMAIN status
  /\ status.currentVariation = "aerial_view"
  /\ status.progress = 50
  /\ Len(StatusImages) = 1

\* update_status alone: the record with progress and message is merged
\* into a status written by an earlier update
C16_WitnessUpdateStatus ==
  /\ pc = "start"
  /\ status_data = [progress |-> 60, message |-> "working"]
  /\ StatusOf(status) = "complete"
  /\ status.progress = 60

(***************************************************************************)
(* Growth of the manifest during a generation run                          *)
(***************************************************************************)
IsPrefix(s, t) == Len(s) <= Len(t) /\ SubSeq(t, 1, Len(s)) = s

\* a generation driver is between the creation of its manifest and its
\* return
C17_Running ==
  pc \in {"hero", "hero_gen", "for", "while", "verify", "save_best",
          "v_for", "v_while", "v_verify", "v_save_best"}

\* C17: during a generation run every step leaves the entries the manifest
\* holds as they are and appends at most one entry, which is the entry of
\* the shot being processed; at every point no two entries have the same
\* variationType
C17_ManifestGrows ==
  /\ [](\A a, b \in 1..Len(manifest.images) :
          a # b => manifest.images[a].variationType
                     # manifest.images[b].variationType)
  /\ [][C17_Running =>
          /\ IsPrefix(manifest.images, manifest'.images)
          /\ Len(manifest'.images) <= Len(manifest.images) + 1
          /\ Len(manifest'.images) = Len(manifest.images) + 1 =>
               manifest'.images[Len(manifest'.images)].variationType
                 = IF pc \in {"hero", "hero_gen"} THEN "hero_facade"
                   ELSE shot_id]_vars

\* the run has stored the hero and both shots that follow it
C17_Witness ==
  /\ pc = "for"
  /\ i = 3
  /\ Len(manifest.images) = 3
  /\ manifest.images[1].isHero
  /\ manifest.images[3].variationType = shots_list[3]

(***************************************************************************)
(* Rubric of the judge, feedback of the loop, void attempts                *)
(***************************************************************************)
\* C18: every judge call of the generation driver and of single-shot
\* regeneration, for any shot id of the plan, uses the interior rubric if
\* and only if the shot id is in the fixed interior-shot set and the
\* exterior rubric otherwise; the interior-shot sets of generate_project,
\* regenerate_single and verify_consistency are equal
C18_RubricByShot ==
  /\ INTERIOR_SHOT_IDS = regenerate_single_INTERIOR_SHOT_IDS
  /\ INTERIOR_SHOT_IDS = verify_consistency_INTERIOR_SHOT_IDS
  /\ verification.attempt > 0 =>
       verification.rubric =
         IF shot_id \in INTERIOR_SHOT_IDS THEN "interior" ELSE "exterior"
  /\ r_verification.attempt > 0 =>
       r_verification.rubric =
         IF variation_type \in INTERIOR_SHOT_IDS THEN "interior"
         ELSE "exterior"

\* the driver has judged a shot that is interior without the word in its id
C18_Witness ==
  /\ pc = "while"
  /\ shot_id = "spatial_window"
  /\ verification.attempt = 2
  /\ verification.rubric = "interior"

\* other cases of C18: a multi-unit extra judged by the driver, an interior
\* shot judged by a regeneration
C18_WitnessExtra ==
  /\ pc = "save_best"
  /\ shot_id = "multi_shared_spaces"
  /\ verification.rubric = "exterior"

C18_WitnessRegen ==
  /\ r_pc = "save_best"
  /\ variation_type = "lifestyle_morning"
  /\ r_verification.rubric = "interior"

\* the feedback in force after the attempts of a log: none if no attempt
\* was judged and failed, else the text built from the critique of the most
\* recent attempt that was
C19_Feedback(log, rubric) ==
  LET failed == {k \in 1..Len(log) :
                   log[k] # NoImage /\ log[k] <= VERIFICATION_THRESHOLD}
  IN IF failed = {} THEN << >>
     ELSE LET last == CHOOSE k \in failed : \A j \in failed : j <= k
          IN << Verification(last, rubric, log[last]) >>

\* C19: the instruction of attempt k of a shot is the shot's base
\* instruction plus the feedback built from the most recent earlier attempt
\* of the same shot that was judged and failed, and from that one only;
\* with no such attempt (attempt 1, or only void attempts before) there is
\* no feedback, and a new shot starts with none
C19_LatestCritiqueOnly ==
  /\ (pc \in {"for", "while", "verify", "save_best"} /\ i >= 2) =>
       /\ fixing_prompt = C19_Feedback(attempt_log, JudgeRubric(shot_id))
       /\ attempts >= 1 =>
            variation_prompt =
              VariationPrompt(shot_id,
                C19_Feedback(SubSeq(attempt_log, 1, attempts - 1),
                             JudgeRubric(shot_id)))
  /\ r_pc \in {"while", "verify", "save_best"} =>
       /\ r_fixing_prompt =
            C19_Feedback(r_log, RegenJudgeRubric(variation_type))
       /\ r_attempts >= 1 =>
            r_variation_prompt =
              VariationPrompt(variation_type,
                C19_Feedback(SubSeq(r_log, 1, r_attempts - 1),
                             RegenJudgeRubric(variation_type)))

\* attempt 3 of a shot whose attempts 1 and 2 were judged and failed: its
\* instruction carries the critique of attempt 2 alone
C19_Witness ==
  /\ pc = "verify"
  /\ attempts = 3
  /\ attempt_log = << 75, 80 >>
  /\ variation_prompt.fixes = << Verification(2, "exterior", 80) >>

\* C20: an attempt whose synthesis returns no image calls no judge, leaves
\* the retained best candidate and the current feedback as they are and
\* increments attempts; every synthesis call is counted in attempts, which
\* never exceeds MAX_REGEN_ATTEMPTS
C20_VoidAttempt ==
  /\ [](/\ pc \in {"while", "verify", "save_best"} =>
             /\ attempts <= MAX_REGEN_ATTEMPTS
             /\ attempts = Len(attempt_log) + (IF pc = "verify" THEN 1 ELSE 0)
        /\ r_pc \in {"while", "verify", "save_best"} =>
             /\ r_attempts <= MAX_REGEN_ATTEMPTS
             /\ r_attempts = Len(r_log) + (IF r_pc = "verify" THEN 1 ELSE 0))
  /\ [][/\ (pc = "while" /\ pc' = "while" /\ attempt_log' # attempt_log) =>
             /\ attempts' = attempts + 1
             /\ attempt_log' = Append(attempt_log, NoImage)
             /\ UNCHANGED << best_score, best_image_data, fixing_prompt,
                             verification >>
        /\ (r_pc = "while" /\ r_pc' = "while" /\ r_log' # r_log) =>
             /\ r_attempts' = r_attempts + 1
             /\ r_log' = Append(r_log, NoImage)
             /\ UNCHANGED << r_best_score, r_best_image_data,
                             r_fixing_prompt, r_verification >>]_vars

\* the last attempt of a shot was void: the candidate and the feedback of
\* attempt 2 are still there and the slots are used up
C20_Witness ==
  /\ pc = "while"
  /\ attempts = MAX_REGEN_ATTEMPTS
  /\ attempt_log = << NoImage, 75, NoImage >>
  /\ best_score = 75
  /\ best_image_data
  /\ Len(fixing_prompt) = 1
  /\ fixing_prompt[1].attempt = 2

(***************************************************************************)
(* Judge failures                                                          *)
(***************************************************************************)
\* the judge result came from the failure branch of verify_image
JudgeFailure(v) == v.breakdown = "empty"

C22_Directives ==
  IF call_args.module = "generate_images" THEN call_result.value
  ELSE SubSeq(call_result.value, 2, Len(call_result.value) - 1)

C22_Framed ==
  call_args.module = "generate_images"
    \/ /\ Len(call_result.value) >= 2
       /\ call_result.value[1] = << "<fixes_required>" >>
       /\ call_result.value[Len(call_result.value)] = << "</fixes_required>" >>

\* C22: build_fixing_prompt emits one improvement directive for exactly the
\* breakdown criteria that score below 16 (a score of 16 emits none), in the
\* order of the breakdown, followed by one directive per issue and then one
\* per suggestion of the judge result, in the judge's order, none dropped
\* and none duplicated
C22_FixingDirectives ==
  (call_result.returned /\ call_args.fn = "build_fixing_prompt") =>
    LET vr == call_args.verification_result
        breakdown == IF "breakdown" \in DOMAIN vr THEN vr.breakdown ELSE << >>
        issues == IF "issues" \in DOMAIN vr THEN vr.issues ELSE << >>
        suggestions == IF "suggestions" \in DOMAIN vr THEN vr.suggestions ELSE << >>
        low == {k \in 1..Len(breakdown) : breakdown[k].score < 16}
        nlow == Cardinality(low)
        d == C22_Directives
    IN /\ C22_Framed
       /\ Len(d) = nlow + Len(issues) + Len(suggestions)
       /\ \A k \in low :
            d[Cardinality({j \in low : j <= k})]
              = << "fix", breakdown[k].criterion, breakdown[k].score >>
       /\ \A k \in 1..Len(issues) : d[nlow + k] = << "issue", issues[k] >>
       /\ \A k \in 1..Len(suggestions) :
            d[nlow + Len(issues) + k] = << "suggestion", suggestions[k] >>

C22_Witness ==
  /\ call_result.returned
  /\ call_args.fn = "build_fixing_prompt"
  /\ call_args.module = "generate_project"
  /\ call_args.verification_result
       = [total_score |-> 0,
          breakdown |-> << [criterion |-> "building_shape", score |-> 16],
                           [criterion |-> "proportions", score |-> 15] >>,
          issues |-> << "window grid differs", "roof differs" >>,
          suggestions |-> << "match the roof" >>]
  /\ Len(call_result.value) = 6

\* a call of get_shots_for_project_type that has returned its plan
PlanReturned ==
  call_result.returned /\ call_args.fn = "get_shots_for_project_type"

BaseIds == {SHOT_TYPES[k] : k \in 1..Len(SHOT_TYPES)}
ExtraIds == {MULTI_UNIT_EXTRA_SHOTS[k] : k \in 1..Len(MULTI_UNIT_EXTRA_SHOTS)}

\* C23: every plan returned by get_shots_for_project_type has exactly one
\* entry with is_hero true, and that entry is the first entry of the plan
C23_OneHeroFirst ==
  PlanReturned =>
    {k \in 1..Len(call_result.value) : shot_is_hero(call_result.value[k])} = {1}

\* C24: the returned plan contains the supplementary multi-unit shots if and
\* only if num_units is three or more or the project is an apartment
\* project, for each of the three project types and every num_units >= 1
C24_ExtrasIffMultiUnit ==
  PlanReturned =>
    ((\E k \in 1..Len(call_result.value) : call_result.value[k] \in ExtraIds)
       <=> (call_args.num_units >= 3 \/ call_args.project_type = "apartments"))

\* C25: the returned plan is the base plan or the base plan followed by the
\* supplementary shots: base shots keep their positions and order, no
\* supplementary shot precedes a base shot, all ids are distinct and the
\* order keys increase strictly along the plan
C25_BaseThenExtras ==
  PlanReturned =>
    LET plan == call_result.value
        n == Len(SHOT_TYPES)
    IN /\ Len(plan) \in {n, n + Len(MULTI_UNIT_EXTRA_SHOTS)}
       /\ \A k \in 1..n : plan[k] = SHOT_TYPES[k]
       /\ \A k \in (n + 1)..Len(plan) : plan[k] \in ExtraIds
       /\ Len(plan) > n => {plan[k] : k \in (n + 1)..Len(plan)} = ExtraIds
       /\ \A j, k \in 1..Len(plan) :
            (plan[j] \in ExtraIds /\ plan[k] \in BaseIds) => j > k
       /\ \A j, k \in 1..Len(plan) : j # k => plan[j] # plan[k]
       /\ \A k \in 1..(Len(plan) - 1) :
            shot_order[plan[k]] < shot_order[plan[k + 1]]

C25_Witness ==
  /\ PlanReturned
  /\ call_args.project_type = "townhouses"
  /\ call_args.num_units = 3
  /\ Len(call_result.value) = 20
  /\ call_result.value[19] = "multi_unit_variety"

\* the step is the manifest write of the regeneration, and it replaces
\* entry k by the regenerated entry of the same shot
C26_Replaces(k) ==
  /\ r_pc = "upd_manifest_dump"
  /\ r_pc' = "upd_status_load"
  /\ manifest.images[k].variationType = variation_type
  /\ manifest'.images[k] = [RegenEntry EXCEPT !.id = manifest.images[k].id]

\* C26: while a generation run and a single-shot regeneration work on the
\* same job at the same time no update is lost: no write of the manifest
\* drops an entry or turns an entry back (an entry changes only when the
\* regeneration replaces it), and once both have finished the status
\* document mirrors the manifest
C26_NoLostUpdate ==
  /\ []((pc = "done" /\ r_pc = "idle") => StatusImages = manifest.images)
  /\ [][/\ Len(manifest'.images) >= Len(manifest.images)
        /\ \A k \in 1..Len(manifest.images) :
             k <= Len(manifest'.images) =>
               (manifest'.images[k] = manifest.images[k] \/ C26_Replaces(k))]_vars

\* positions of the manifest entries marked isHero
C27_HeroPositions(images) == {k \in 1..Len(images) : images[k].isHero}

\* C27: once a generation run has stored the hero (the manifest has exactly
\* one entry marked isHero, the first), every successful single-shot
\* regeneration of a known shot leaves the manifest with exactly one entry
\* marked isHero, still the first
C27_HeroEntryKept ==
  [][(/\ r_pc = "save_best"
      /\ r_exit' = "ok"
      /\ C27_HeroPositions(manifest.images) = {1})
       => C27_HeroPositions(manifest'.images) = {1}]_vars

\* a step of the regeneration process
RegenStep == r_pc # "idle" \/ regens' # regens

\* C28: single-shot regeneration never changes the number of manifest
\* entries; when the requested known shot has no manifest entry nothing is
\* appended and the images list stays exactly as it was
C28_EntryCountKept ==
  [][RegenStep =>
       /\ manifest'.exists = manifest.exists
       /\ Len(manifest'.images) = Len(manifest.images)
       /\ (r_pc = "save_best" /\ FindEntry(manifest.images, variation_type) = 0)
            => manifest'.images = manifest.images]_vars

C28_Witness ==
  /\ r_pc = "exit"
  /\ r_exit = "ok"
  /\ r_best_image_data
  /\ get_shot_by_id(variation_type)
  /\ FindEntry(manifest.images, variation_type) = 0
  /\ Len(manifest.images) >= 1

\* C29: a single-shot regeneration that fails (manifest missing, unknown
\* shot id, no hero entry in the manifest, hero file missing, no attempt
\* retained an image) exits with an error, and the manifest and status
\* documents are as they were before the call: the generation loop is
\* entered only when the first three preconditions hold, and the only step
\* of a regeneration that writes either document is its successful save
C29_FailureLeavesStore ==
  [][RegenStep =>
       /\ (r_exit' = "ok" /\ r_exit # "ok") => (r_pc = "save_best" /\ r_best_image_data)
       /\ ~ (r_pc = "save_best" /\ r_best_image_data) => UNCHANGED << manifest, status >>
       /\ r_pc = "idle" =>
            \/ /\ r_pc' = "while"
               /\ manifest.exists
               /\ get_shot_by_id(variation_type')
               /\ HasHero(manifest.images)
            \/ /\ r_pc' = "idle"
               /\ r_exit' = "error"
       /\ (r_pc = "save_best" /\ ~ r_best_image_data) => r_exit' = "error"]_vars

C29_Witness ==
  /\ r_pc = "exit"
  /\ r_exit = "error"
  /\ r_attempts = MAX_REGEN_ATTEMPTS
  /\ r_log = [a \in 1..MAX_REGEN_ATTEMPTS |-> NoImage]
  /\ manifest.exists
  /\ Len(manifest.images) >= 2
  /\ StatusOf(status) = "complete"

\* the run at hand is a run of the variations driver
C30_Variations == shots_list = VARIATIONS

\* number of plan entries the run walks
C30_N == LastIndex

\* the run ends, and it ends with status complete or error
C30_Terminates ==
  /\ <>(pc = "done")
  /\ [](pc = "done" => StatusOf(status) \in {"complete", "error"})

C31_Judged(log) == {log[k] : k \in {j \in 1..Len(log) : log[j] # NoImage}}

C31_Best(log) ==
  IF C31_Judged(log) = {} THEN 0
  ELSE CHOOSE s \in C31_Judged(log) : \A t \in C31_Judged(log) : t <= s

\* the record of shot s as a function of s and of the outcomes of its own
\* attempts alone; the identity is the one the shot gets when every shot
\* before it is stored
C31_Result(s, log) ==
  [id |-> PlanIndex(s), variationType |-> s, isHero |-> FALSE,
   consistencyScore |-> C31_Best(log), attempts |-> Len(log),
   lowConfidence |-> (C31_Best(log) <= VERIFICATION_THRESHOLD)]

\* C31: with the hero fixed, what the run records for a non-hero shot
\* (stored or skipped, identity field, consistencyScore, attempts,
\* lowConfidence) is determined by the shot and the outcomes of its own
\* attempts, whatever the outcomes of the other non-hero shots
C31_OwnOutcomesOnly ==
  [][(pc = "save_best" /\ pc' = "for") =>
       IF C31_Best(attempt_log) > 0
         THEN /\ Len(manifest'.images) = Len(manifest.images) + 1
              /\ manifest'.images[Len(manifest'.images)]
                   = C31_Result(shot_id, attempt_log)
         ELSE /\ manifest' = manifest
              /\ shot_id \in skipped']_vars


\* both loops have ended
C32_BothEnded == pc = "save_best" /\ r_pc = "save_best"

\* C32: for the same shot and the same outcome per attempt the loop of the
\* single-shot regeneration and the per-shot loop of the generation driver
\* make the same sequence of synthesis and judge calls (the same attempts
\* end without image, the same are judged, with the same rubric) and give
\* the same consistencyScore, attempts and lowConfidence, or both retain
\* no image
C32_SameLoop ==
  C32_BothEnded =>
    /\ variation_type = shot_id
    /\ r_log = attempt_log
    /\ r_verification.rubric = verification.rubric
    /\ r_best_image_data = best_image_data
    /\ best_image_data => RegenEntry = [ImageEntry EXCEPT !.id = 0]

C32_Witness ==
  /\ C32_BothEnded
  /\ shot_id = "interior_kitchen"
  /\ attempt_log = << NoImage, 75, 90 >>
  /\ r_log = << NoImage, 75, 90 >>
  /\ RegenEntry.attempts = 3

C34_EarliestBest(log) ==
  IF C31_Judged(log) = {} THEN 0
  ELSE CHOOSE a \in 1..Len(log) :
         /\ log[a] = C31_Best(log)
         /\ \A b \in 1..(a - 1) : log[b] # C31_Best(log)

\* image, score and breakdown of a finished loop all belong to attempt a
C34_FromAttempt(a, log, score, image_of, breakdown) ==
  /\ a \in 1..Len(log)
  /\ score = log[a]
  /\ image_of = a
  /\ breakdown.attempt = a
  /\ breakdown.total_score = log[a]

\* C34: when a loop ends with a retained image, the image written to the
\* file, the consistencyScore and the scoreBreakdown of the entry it stores
\* all come from one attempt, the earliest one that reached the maximum
\* score of the loop; this holds for the generation driver and for the
\* single-shot regeneration
C34_OneAttempt ==
  /\ (pc = "save_best" /\ best_image_data) =>
       C34_FromAttempt(C34_EarliestBest(attempt_log), attempt_log,
                       ImageEntry.consistencyScore, best_image_of,
                       best_breakdown)
  /\ (r_pc = "save_best" /\ r_best_image_data) =>
       C34_FromAttempt(C34_EarliestBest(r_log), r_log,
                       RegenEntry.consistencyScore, r_best_image_of,
                       r_best_breakdown)

\* a loop ended whose second and third attempts were judged equal, below the
\* threshold, after a first attempt without image: the second is retained
C34_Witness ==
  /\ pc = "save_best"
  /\ r_pc = "save_best"
  /\ attempt_log = << NoImage, 75, 75 >>
  /\ r_log = << NoImage, 75, 75 >>
  /\ best_image_of = 2
  /\ r_best_breakdown.attempt = 2

(***************************************************************************)
(* C35: the run on a pre-approved hero                                     *)
(***************************************************************************)
\* the entries of the manifest that are marked as the hero
C35_Heroes ==
  {k \in 1..Len(manifest.images) : manifest.images[k].isHero}

\* the manifest holds one hero entry, with the fields of an approved hero
C35_OneHero ==
  /\ manifest.exists
  /\ Cardinality(C35_Heroes) = 1
  /\ \A k \in C35_Heroes :
       /\ manifest.images[k].variationType = "hero_facade"
       /\ manifest.images[k].consistencyScore = 100
       /\ manifest.images[k].attempts = 1
       /\ manifest.images[k].lowConfidence = FALSE

\* C35: a run with --from-hero naming an existing file makes no synthesis
\* call up to the end of its hero step, never reaches the hero synthesis,
\* never writes status generating_hero, and from the end of its hero step
\* on its manifest holds exactly one hero entry, with consistencyScore 100,
\* attempts 1 and lowConfidence false
C35_ApprovedHero ==
  /\ [](from_hero => /\ pc # "hero_gen"
                     /\ StatusOf(status) # "generating_hero"
                     /\ (pc \in {"parse", "hero"} => synth_calls = 0)
                     /\ (pc \notin {"parse", "hero"} => C35_OneHero))
  /\ [][(from_hero /\ pc = "hero") =>
          /\ synth_calls' = synth_calls
          /\ judge_calls' = judge_calls
          /\ pc' = "for"
          /\ Len(manifest'.images) = 1
          /\ manifest'.images[1] = HeroEntry]_vars

\* the hero step of a run on an approved hero has just ended
C35_Witness ==
  /\ from_hero
  /\ pc = "for"
  /\ i = 0
  /\ synth_calls = 0
  /\ StatusOf(status) = "generating"
  /\ C35_OneHero

(***************************************************************************)
(* C36: identities and the completed counter                               *)
(***************************************************************************)
\* the generation run is past its hero step and has not returned
C36_InLoop == pc \in {"for", "while", "verify", "save_best"}

\* the k-th entry of the manifest has identity k
C36_GapFree(images) == \A k \in 1..Len(images) : images[k].id = k

\* C36: in a generation run the k-th manifest entry has identity job_id_k,
\* so identities are distinct and without gaps also when shots are skipped;
\* the completed counter equals the number of manifest entries from the hero
\* step to the end of the run, and the count that the final status message
\* is built from equals the number of manifest entries
C36_IdsAndCount ==
  /\ [](C36_InLoop => /\ C36_GapFree(manifest.images)
                      /\ completed = Len(manifest.images))
  /\ [][(pc = "for" /\ pc' = "done") =>
          /\ StatusOf(status') = "complete"
          /\ completed = Len(manifest'.images)
          /\ C36_GapFree(manifest'.images)]_vars

\* a run that skipped its second shot and stored its third
C36_Witness ==
  /\ pc = "for"
  /\ i = 3
  /\ skipped = {shots_list[2]}
  /\ completed = 2
  /\ Len(manifest.images) = 2
  /\ manifest.images[2].variationType = shots_list[3]
  /\ manifest.images[2].id = 2

(***************************************************************************)
(* C37: the totalImages counter                                            *)
(***************************************************************************)
\* the plan of the run has been built and the run has not returned
C37_PlanBuilt ==
  pc \in {"hero", "hero_gen", "for", "while", "verify", "save_best"}

\* C37: from the status update that follows plan construction to the end of
\* the run, totalImages in the status equals the length of the plan of the
\* job and currentImage does not exceed totalImages
C37_TotalImages ==
  /\ [](C37_PlanBuilt => /\ status.totalImages = total_shots
                         /\ status.currentImage <= status.totalImages)
  /\ [][(C37_PlanBuilt /\ pc' = "done") =>
          /\ status'.totalImages = total_shots
          /\ status'.currentImage <= status'.totalImages]_vars

(***************************************************************************)
(* C38: the values of the status field                                     *)
(***************************************************************************)
\* the enumerated status values
C38_Enumerated ==
  {"created", "parsing", "generating_hero", "awaiting_approval", "generating",
   "verifying", "complete", "error"}

C38_InRun ==
  pc \in {"parse", "hero", "hero_gen", "for", "while", "verify", "save_best"}

====
